---- MODULE Spec2Model ----
(***************************************************************************)
(* Model of the Slack <-> Jira interaction engine of khiemphamm/slack-bot. *)
(* Every handler of src/controllers/jiraController.js is a small process   *)
(* that suspends at each `await`; one action of the model performs one     *)
(* awaited external call together with the synchronous code that follows   *)
(* it up to the next await.                                                *)
(***************************************************************************)
EXTENDS Integers, Sequences, FiniteSets, TLC

VARIABLES run, surface, store, modalOpen, calc

vars == <<run, surface, store, modalOpen, calc>>

(***************************************************************************)
(* Value domains                                                           *)
(***************************************************************************)
Runs == {1, 2}

Undefined == "undefined"
Null == "null"
\* an issue key that is `undefined` in the handler (a string everywhere else)
UndefinedKey == <<"undefined">>

ChatIds == {"U1"}
Accounts == {"acctX", "acctY"}

\* Outcomes of a call on the chat transport or on the identity store.
SlackOutcomes == {"ok", "fail"}
\* Outcomes of a tracker REST call: success or the HTTP status of the error.
JiraOutcomes == {"ok", "404", "401", "500"}

\* Strings the code inspects are sequences of characters.
KeyProj5 == <<"P", "R", "O", "J", "-", "5">>
KeyNumeric == <<"1", "0", "0", "4", "2">>
Blank == <<" ">>
Empty == <<>>

Digits == {"0", "1", "2", "3", "4", "5", "6", "7", "8", "9"}
Letters == {"P", "R", "O", "J", "x", "y", "c"}

(***************************************************************************)
(* String helpers                                                          *)
(***************************************************************************)
RECURSIVE TrimStart(_)
TrimStart(s) == IF s # <<>> /\ Head(s) = " " THEN TrimStart(Tail(s)) ELSE s

RECURSIVE TrimEnd(_)
TrimEnd(s) ==
    IF s # <<>> /\ s[Len(s)] = " " THEN TrimEnd(SubSeq(s, 1, Len(s) - 1)) ELSE s

\* String.prototype.trim
Trim(s) == TrimEnd(TrimStart(s))

\* issueKey.match(/^([A-Z0-9]+)-\d+$/i): the project part, <<>> when
\* there is no match.
ProjectKeyMatch(k) ==
    LET cuts == {i \in 2..(Len(k) - 1) :
                    /\ k[i] = "-"
                    /\ \A j \in 1..(i - 1) : k[j] \in Letters \cup Digits
                    /\ \A j \in (i + 1)..Len(k) : k[j] \in Digits}
    IN IF cuts = {} THEN <<>> ELSE SubSeq(k, 1, (CHOOSE i \in cuts : TRUE) - 1)

(***************************************************************************)
(* Messages handed to respond()                                            *)
(***************************************************************************)
\* What a message shows: its kind, the run that built it, and whether it
\* carries the reassign control.
Content(kind, r, reassign) == [kind |-> kind, by |-> r, reassign |-> reassign]

Msg(content, responseType, replaceOriginal, ephemeralFlag) ==
    [content |-> content, response_type |-> responseType,
     replace_original |-> replaceOriginal, ephemeral |-> ephemeralFlag]

\* The two axes of a respond call: mode and visibility.
ReplacesInPlace(m) == m.replace_original

ActorOnly(m) == ~m.replace_original /\ m.response_type # "in_channel"

\* A document is a sequence of blocks; a block holds texts and controls, a
\* control its action id, its label and the value it sends back.
Block(type, texts, controls) == [type |-> type, texts |-> texts, controls |-> controls]

Control(actionId, text, value) == [action_id |-> actionId, text |-> text, value |-> value]

\* JSON.stringify({ issueKey, [name]: value }): a property whose value is
\* undefined is left out, null is written as the literal null
Stringify(issueKey, name, value) ==
    [issueKey |-> IF issueKey = UndefinedKey THEN <<>> ELSE <<issueKey>>,
     name |-> name,
     value |-> IF value = Undefined THEN <<>> ELSE <<value>>]

\* variant: the placeholder keeps a transition button of the card
PlaceholderBlocks_button ==
    <<Block("section", <<"Updating">>, <<>>),
      Block("actions", <<>>,
            <<Control(<<"transition_", "31">>, "Done",
                      Stringify(KeyProj5, "transitionId", "31"))>>)>>

\* blocks of the two in-progress responds: one section with a text
PlaceholderBlocks == <<Block("section", <<"Updating">>, <<>>)>>

\* the listeners that the controls of a document address
Listeners(blocks) ==
    UNION {{blocks[b].controls[c].action_id[1] : c \in DOMAIN blocks[b].controls} :
              b \in DOMAIN blocks}

\* the listeners that the surface content offers to the channel: the card
\* has its transition buttons, the comment button and, if rendered, the
\* reassign menu
ControlsOn(content) ==
    IF content.kind = "issueDoc"
    THEN {"transition_", "open_comment_modal"}
             \cup (IF content.reassign THEN {"assign_issue"} ELSE {})
    ELSE IF content.kind = "placeholder" THEN Listeners(PlaceholderBlocks)
    ELSE {}

\* One external call of a run, as recorded in the run's log.
Ext(call, arg, o) == [call |-> call, arg |-> arg, o |-> o]

(***************************************************************************)
(* Run records                                                             *)
(***************************************************************************)
\* identity store rows: db.getUserMapping yields a row or nothing
NoRow == [present |-> FALSE, jira_account_id |-> Null, jira_email |-> <<>>]
Row(account, email) ==
    [present |-> TRUE, jira_account_id |-> account, jira_email |-> email]

\* a line of the mapping table, keyed by the chat user id
Entry(slackId, account, email) ==
    [slack_id |-> slackId, jira_account_id |-> account, jira_email |-> email]

NoValue == [parse |-> "none", issueKey |-> UndefinedKey, target |-> Undefined]
NoEv == [text |-> Empty, value |-> NoValue, user |-> "missing", shape |-> "complete"]

\* calc holds one call of a pure builder: its name, argument and result
NoOut == [kind |-> "none"]
NoCalc == [op |-> "none", in |-> <<>>, out |-> NoOut]

IdleRun ==
    [handler |-> "none", pc |-> "idle", ev |-> NoEv, log |-> <<>>,
     err |-> "none", failed |-> FALSE, escaped |-> FALSE,
     issueKey |-> UndefinedKey, target |-> Undefined,
     userMap |-> NoRow, users |-> "none", id |-> 0, arrival |-> 0]

At(r, h, pc) == run[r].handler = h /\ run[r].pc = pc

\* a call that writes a resource two runs share: the tracker issue, the
\* identity store, or the surface replaced in place
Shared(c) ==
    \/ c.call \in {"transitionIssue", "assignIssue", "saveUserMapping"}
    \/ c.call = "respond" /\ c.arg.replace_original

\* how many of the first n calls in a log write a shared resource
SharedCount(log, n) == Cardinality({k \in 1..n : Shared(log[k])})

\* the number of shared writes the other run has made so far: stamped on a
\* run's own shared writes, it orders the writes of two concurrent runs
Stamp(id) ==
    LET other == run[CHOOSE q \in Runs \ {id} : TRUE].log
    IN SharedCount(other, Len(other))

Logged(rr, c) ==
    [rr EXCEPT !.log = Append(@, [call |-> c.call, arg |-> c.arg, o |-> c.o,
                                  at |-> IF Shared(c) THEN Stamp(rr.id) ELSE 0])]

\* control reaches the catch block of the handler with the thrown error
Caught(rr, status) == [rr EXCEPT !.pc = "catch", !.err = status, !.failed = TRUE]

\* an exception leaves the handler: the returned promise rejects
Thrown(rr) == [rr EXCEPT !.pc = "done", !.escaped = TRUE, !.failed = TRUE]

Finished(rr) == [rr EXCEPT !.pc = "done"]

Init ==
    /\ run = [r \in Runs |-> [IdleRun EXCEPT !.id = r]]
    /\ surface = Content("none", 0, FALSE)
    /\ store = {}
    /\ modalOpen = FALSE
    /\ calc = NoCalc

(***************************************************************************)
(* Inbound events                                                          *)
(***************************************************************************)
ProjKey == <<"P", "R", "O", "J">>
EmailX == <<"x", "@", "c">>
EmailY == <<"y", "@", "c">>
\* an address whose directory entry carries no accountId
EmailZ == <<"z", "@", "c">>
NameQuery == <<"x">>

CommandTexts(h) ==
    CASE h = "handleJiraCommand" -> {Empty, Blank, KeyProj5, KeyNumeric}
      [] h = "handleJiraReportCommand" -> {Empty, ProjKey}
      [] h = "handleJiraTeamCommand" -> {Empty, ProjKey}
      [] h = "handleJiraProjectsCommand" -> {Empty}
      [] h = "handleJiraMapCommand" -> {Empty, NameQuery, EmailX, EmailY, EmailZ}
      [] h = "handleJiraTasksCommand" -> {Empty, NameQuery}

CommandHandlers ==
    {"handleJiraCommand", "handleJiraReportCommand", "handleJiraTeamCommand",
     "handleJiraProjectsCommand", "handleJiraMapCommand", "handleJiraTasksCommand"}

\* action.value of a transition button as it arrives
TransitionValues ==
    {[parse |-> "throws", issueKey |-> UndefinedKey, target |-> Undefined],
     [parse |-> "null", issueKey |-> UndefinedKey, target |-> Undefined]}
    \cup [parse : {"object"}, issueKey : {UndefinedKey, KeyProj5, KeyNumeric},
          target : {Undefined, "31"}]

\* action.selected_option.value of the reassign menu as it arrives
AssignValues ==
    {[parse |-> "throws", issueKey |-> UndefinedKey, target |-> Undefined],
     [parse |-> "null", issueKey |-> UndefinedKey, target |-> Undefined]}
    \cup [parse : {"object"}, issueKey : {UndefinedKey, KeyProj5},
          target : {Undefined, Null, "acctX"}]

BodyUsers == {"missing", ""} \cup ChatIds

Begin(r, h, ev) ==
    /\ run[r].pc \in {"idle", "done"}
    /\ run' = [run EXCEPT ![r] =
           [IdleRun EXCEPT !.handler = h, !.pc = "ack", !.ev = ev, !.id = r,
                           !.arrival = 1 + Cardinality({q \in Runs \ {r} :
                                                           run[q].pc # "idle"})]]

\* app.command(...): a slash command is delivered to its handler
ReceiveCommand(r) ==
    /\ \E h \in CommandHandlers : \E t \in CommandTexts(h) : \E u \in ChatIds :
          Begin(r, h, [NoEv EXCEPT !.text = t, !.user = u])
    /\ UNCHANGED <<surface, store, modalOpen, calc>>

\* app.action(...): a control of the rendered issue card is actuated
ReceiveAction(r) ==
    /\ \/ /\ "transition_" \in ControlsOn(surface)
          /\ \E v \in TransitionValues : \E u \in BodyUsers :
                Begin(r, "handleTransitionAction", [NoEv EXCEPT !.value = v, !.user = u])
       \/ /\ "assign_issue" \in ControlsOn(surface)
          /\ \E v \in AssignValues : \E u \in BodyUsers : \E sh \in {"complete", "missing"} :
                Begin(r, "handleAssignIssueAction",
                      [NoEv EXCEPT !.value = v, !.user = u, !.shape = sh])
       \/ /\ "open_comment_modal" \in ControlsOn(surface)
          /\ \E sh \in {"complete", "missing"} :
                Begin(r, "handleOpenCommentModal",
                      [NoEv EXCEPT !.text = KeyProj5, !.shape = sh])
    /\ UNCHANGED <<surface, store, modalOpen, calc>>

\* app.view(...): the comment modal is submitted
ReceiveView(r) ==
    /\ modalOpen
    /\ \E u \in BodyUsers : \E sh \in {"complete", "missing"} :
          Begin(r, "handleCommentSubmit",
                [NoEv EXCEPT !.text = KeyProj5, !.user = u, !.shape = sh])
    /\ modalOpen' = FALSE
    /\ UNCHANGED <<surface, store, calc>>

(***************************************************************************)
(* handleJiraCommand                                                       *)
(***************************************************************************)
\* variant: every failure gets the generic message
JiraErrorKind_generic(status) == "error"

JiraErrorKind(status) ==
    CASE status = "404" -> "notfound"
      [] status = "401" -> "unauthorized"
      [] OTHER -> "error"

handleJiraCommand_ack(r) ==
    /\ At(r, "handleJiraCommand", "ack")
    /\ \E o \in SlackOutcomes :
          LET rr == Logged(run[r], Ext("ack", Null, o))
              issueKey == Trim(run[r].ev.text)
          IN run' = [run EXCEPT ![r] =
                 IF o # "ok" THEN Thrown(rr)
                 ELSE IF issueKey = Empty THEN [rr EXCEPT !.pc = "usage"]
                 ELSE [rr EXCEPT !.pc = "loading", !.issueKey = issueKey]]
    /\ UNCHANGED <<surface, store, modalOpen, calc>>

handleJiraCommand_usage(r) ==
    /\ At(r, "handleJiraCommand", "usage")
    /\ \E o \in SlackOutcomes :
          LET m == Msg(Content("usage", r, FALSE), "ephemeral", FALSE, FALSE)
              rr == Logged(run[r], Ext("respond", m, o))
          IN run' = [run EXCEPT ![r] = IF o = "ok" THEN Finished(rr) ELSE Thrown(rr)]
    /\ UNCHANGED <<surface, store, modalOpen, calc>>

handleJiraCommand_loading(r) ==
    /\ At(r, "handleJiraCommand", "loading")
    /\ \E o \in SlackOutcomes :
          LET m == Msg(Content("loading", r, FALSE), "ephemeral", FALSE, FALSE)
              rr == Logged(run[r], Ext("respond", m, o))
          IN run' = [run EXCEPT ![r] =
                 IF o = "ok" THEN [rr EXCEPT !.pc = "getIssue"] ELSE Caught(rr, "none")]
    /\ UNCHANGED <<surface, store, modalOpen, calc>>

handleJiraCommand_getIssue(r) ==
    /\ At(r, "handleJiraCommand", "getIssue")
    /\ \E o \in JiraOutcomes :
          LET rr == Logged(run[r], Ext("getIssue", run[r].issueKey, o))
          IN run' = [run EXCEPT ![r] =
                 IF o = "ok" THEN [rr EXCEPT !.pc = "getTransitions"] ELSE Caught(rr, o)]
    /\ UNCHANGED <<surface, store, modalOpen, calc>>

handleJiraCommand_getTransitions(r) ==
    /\ At(r, "handleJiraCommand", "getTransitions")
    /\ \E o \in JiraOutcomes :
          LET rr == Logged(run[r], Ext("getTransitions", run[r].issueKey, o))
          IN run' = [run EXCEPT ![r] =
                 IF o # "ok" THEN Caught(rr, o)
                 ELSE IF ProjectKeyMatch(run[r].issueKey) # <<>>
                      THEN [rr EXCEPT !.pc = "getProjectUsers"]
                      ELSE [rr EXCEPT !.pc = "render"]]
    /\ UNCHANGED <<surface, store, modalOpen, calc>>

\* variant: a failed fetch of the assignable users ends the command
handleJiraCommand_getProjectUsers_thrown(r) ==
    /\ At(r, "handleJiraCommand", "getProjectUsers")
    /\ \E o \in JiraOutcomes :
          LET rr == Logged(run[r],
                           Ext("getProjectUsers", ProjectKeyMatch(run[r].issueKey), o))
          IN run' = [run EXCEPT ![r] =
                 IF o = "ok" THEN [rr EXCEPT !.pc = "render", !.users = "some"]
                 ELSE Caught(rr, o)]
    /\ UNCHANGED <<surface, store, modalOpen, calc>>

handleJiraCommand_getProjectUsers(r) ==
    /\ At(r, "handleJiraCommand", "getProjectUsers")
    /\ \E o \in JiraOutcomes :
          LET rr == Logged(run[r],
                           Ext("getProjectUsers", ProjectKeyMatch(run[r].issueKey), o))
          IN run' = [run EXCEPT ![r] =
                 [rr EXCEPT !.pc = "render",
                            !.users = IF o = "ok" THEN "some" ELSE "none"]]
    /\ UNCHANGED <<surface, store, modalOpen, calc>>

handleJiraCommand_render(r) ==
    /\ At(r, "handleJiraCommand", "render")
    /\ \E o \in SlackOutcomes :
          LET doc == Content("issueDoc", r, run[r].users = "some")
              m == Msg(doc, "in_channel", FALSE, FALSE)
              rr == Logged(run[r], Ext("respond", m, o))
          IN /\ run' = [run EXCEPT ![r] =
                    IF o = "ok" THEN Finished(rr) ELSE Caught(rr, "none")]
             /\ surface' = IF o = "ok" THEN doc ELSE surface
    /\ UNCHANGED <<store, modalOpen, calc>>

\* variant: the failure notice of /jira is posted to the channel
handleJiraCommand_catch_public(r) ==
    /\ At(r, "handleJiraCommand", "catch")
    /\ \E o \in SlackOutcomes :
          LET m == Msg(Content(JiraErrorKind(run[r].err), r, FALSE),
                       "in_channel", FALSE, FALSE)
              rr == Logged(run[r], Ext("respond", m, o))
          IN run' = [run EXCEPT ![r] = IF o = "ok" THEN Finished(rr) ELSE Thrown(rr)]
    /\ UNCHANGED <<surface, store, modalOpen, calc>>

handleJiraCommand_catch(r) ==
    /\ At(r, "handleJiraCommand", "catch")
    /\ \E o \in SlackOutcomes :
          LET m == Msg(Content(JiraErrorKind(run[r].err), r, FALSE),
                       "ephemeral", FALSE, FALSE)
              rr == Logged(run[r], Ext("respond", m, o))
          IN run' = [run EXCEPT ![r] = IF o = "ok" THEN Finished(rr) ELSE Thrown(rr)]
    /\ UNCHANGED <<surface, store, modalOpen, calc>>

handleJiraCommand(r) ==
    \/ handleJiraCommand_ack(r)
    \/ handleJiraCommand_usage(r)
    \/ handleJiraCommand_loading(r)
    \/ handleJiraCommand_getIssue(r)
    \/ handleJiraCommand_getTransitions(r)
    \/ handleJiraCommand_getProjectUsers(r)
    \/ handleJiraCommand_render(r)
    \/ handleJiraCommand_catch(r)

(***************************************************************************)
(* handleTransitionAction                                                  *)
(***************************************************************************)
\* db.getUserMapping(slackId): the row stored under the key, if any
GetRow(slackId) ==
    LET hits == {e \in store : e.slack_id = slackId}
    IN IF hits = {} THEN NoRow
       ELSE LET e == CHOOSE x \in hits : TRUE
            IN Row(e.jira_account_id, e.jira_email)

\* variant: the actor is always written as a mention token
ActorText_mention(userMap, slackId) ==
    <<"mention", userMap.jira_account_id>>

\* the actor part of an audit comment: a mention token or the chat id
ActorText(userMap, slackId) ==
    IF userMap.present /\ userMap.jira_account_id # Null
    THEN <<"mention", userMap.jira_account_id>>
    ELSE <<"plain", slackId>>

\* pc after the mutation of a transition: the inner try reads body.user.id
TransitionAfterMutation(rr) ==
    IF rr.ev.user \in {"missing", ""}
    THEN [rr EXCEPT !.pc = "getIssue"]
    ELSE [rr EXCEPT !.pc = "getUserMapping"]

\* pc after the audit step of a transition failed inside the inner try
TransitionAuditFailed(rr) == [rr EXCEPT !.pc = "getIssue"]

\* variant: a payload that does not parse is not rejected
TransitionParsed_unchecked(rr) ==
    [rr EXCEPT !.pc = "placeholder", !.issueKey = rr.ev.value.issueKey,
               !.target = rr.ev.value.target]

\* const { issueKey, transitionId } = JSON.parse(action.value)
TransitionParsed(rr) ==
    LET v == rr.ev.value
    IN IF v.parse # "object" THEN Caught(rr, "none")
       ELSE [rr EXCEPT !.pc = "placeholder", !.issueKey = v.issueKey,
                       !.target = v.target]

TransitionErrorMsg(r, status) ==
    Msg(Content("error", r, FALSE), "absent", FALSE, TRUE)

\* variant: the handler starts working without acknowledging the event
handleTransitionAction_ack_late(r) ==
    /\ At(r, "handleTransitionAction", "ack")
    /\ run' = [run EXCEPT ![r] = TransitionParsed(run[r])]
    /\ UNCHANGED <<surface, store, modalOpen, calc>>

handleTransitionAction_ack(r) ==
    /\ At(r, "handleTransitionAction", "ack")
    /\ \E o \in SlackOutcomes :
          LET rr == Logged(run[r], Ext("ack", Null, o))
          IN run' = [run EXCEPT ![r] =
                 IF o = "ok" THEN TransitionParsed(rr) ELSE Thrown(rr)]
    /\ UNCHANGED <<surface, store, modalOpen, calc>>

\* variant: the mutation call is dropped after the placeholder
handleTransitionAction_placeholder_skip(r) ==
    /\ At(r, "handleTransitionAction", "placeholder")
    /\ \E o \in SlackOutcomes :
          LET ph == Content("placeholder", r, FALSE)
              m == Msg(ph, "absent", TRUE, FALSE)
              rr == Logged(run[r], Ext("respond", m, o))
          IN /\ run' = [run EXCEPT ![r] =
                    IF o = "ok" THEN TransitionAfterMutation(rr) ELSE Caught(rr, "none")]
             /\ surface' = IF o = "ok" THEN ph ELSE surface
    /\ UNCHANGED <<store, modalOpen, calc>>

handleTransitionAction_placeholder(r) ==
    /\ At(r, "handleTransitionAction", "placeholder")
    /\ \E o \in SlackOutcomes :
          LET ph == Content("placeholder", r, FALSE)
              m == Msg(ph, "absent", TRUE, FALSE)
              rr == Logged(run[r], Ext("respond", m, o))
          IN /\ run' = [run EXCEPT ![r] =
                    IF o = "ok" THEN [rr EXCEPT !.pc = "mutate"] ELSE Caught(rr, "none")]
             /\ surface' = IF o = "ok" THEN ph ELSE surface
    /\ UNCHANGED <<store, modalOpen, calc>>

\* variant: a failed mutation does not stop the run
handleTransitionAction_mutate_ignored(r) ==
    /\ At(r, "handleTransitionAction", "mutate")
    /\ \E o \in JiraOutcomes :
          LET rr == Logged(run[r],
                           Ext("transitionIssue", <<run[r].issueKey, run[r].target>>, o))
          IN run' = [run EXCEPT ![r] = TransitionAfterMutation(rr)]
    /\ UNCHANGED <<surface, store, modalOpen, calc>>

handleTransitionAction_mutate(r) ==
    /\ At(r, "handleTransitionAction", "mutate")
    /\ \E o \in JiraOutcomes :
          LET rr == Logged(run[r],
                           Ext("transitionIssue", <<run[r].issueKey, run[r].target>>, o))
          IN run' = [run EXCEPT ![r] =
                 IF o = "ok" THEN TransitionAfterMutation(rr) ELSE Caught(rr, o)]
    /\ UNCHANGED <<surface, store, modalOpen, calc>>

handleTransitionAction_getUserMapping(r) ==
    /\ At(r, "handleTransitionAction", "getUserMapping")
    /\ \E o \in SlackOutcomes :
          LET rr == Logged(run[r], Ext("getUserMapping", run[r].ev.user, o))
          IN run' = [run EXCEPT ![r] =
                 IF o = "ok"
                 THEN [rr EXCEPT !.pc = "addComment", !.userMap = GetRow(run[r].ev.user)]
                 ELSE TransitionAuditFailed(rr)]
    /\ UNCHANGED <<surface, store, modalOpen, calc>>

\* variant: after the audit comment the card is rebuilt without a refetch
handleTransitionAction_addComment_norefetch(r) ==
    /\ At(r, "handleTransitionAction", "addComment")
    /\ \E o \in JiraOutcomes :
          LET c == [issueKey |-> run[r].issueKey, what |-> "status",
                    actor |-> ActorText(run[r].userMap, run[r].ev.user)]
              rr == Logged(run[r], Ext("addComment", c, o))
          IN run' = [run EXCEPT ![r] =
                 IF o = "ok" THEN [rr EXCEPT !.pc = "render"]
                 ELSE TransitionAuditFailed(rr)]
    /\ UNCHANGED <<surface, store, modalOpen, calc>>

handleTransitionAction_addComment(r) ==
    /\ At(r, "handleTransitionAction", "addComment")
    /\ \E o \in JiraOutcomes :
          LET c == [issueKey |-> run[r].issueKey, what |-> "status",
                    actor |-> ActorText(run[r].userMap, run[r].ev.user)]
              rr == Logged(run[r], Ext("addComment", c, o))
          IN run' = [run EXCEPT ![r] =
                 IF o = "ok" THEN [rr EXCEPT !.pc = "getIssue"]
                 ELSE TransitionAuditFailed(rr)]
    /\ UNCHANGED <<surface, store, modalOpen, calc>>

handleTransitionAction_getIssue(r) ==
    /\ At(r, "handleTransitionAction", "getIssue")
    /\ \E o \in JiraOutcomes :
          LET rr == Logged(run[r], Ext("getIssue", run[r].issueKey, o))
          IN run' = [run EXCEPT ![r] =
                 IF o = "ok" THEN [rr EXCEPT !.pc = "getTransitions"] ELSE Caught(rr, o)]
    /\ UNCHANGED <<surface, store, modalOpen, calc>>

handleTransitionAction_getTransitions(r) ==
    /\ At(r, "handleTransitionAction", "getTransitions")
    /\ \E o \in JiraOutcomes :
          LET rr == Logged(run[r], Ext("getTransitions", run[r].issueKey, o))
          IN run' = [run EXCEPT ![r] =
                 IF o # "ok" THEN Caught(rr, o)
                 ELSE IF run[r].issueKey = UndefinedKey THEN Caught(rr, "none")
                 ELSE IF ProjectKeyMatch(run[r].issueKey) # <<>>
                      THEN [rr EXCEPT !.pc = "getProjectUsers"]
                      ELSE [rr EXCEPT !.pc = "render"]]
    /\ UNCHANGED <<surface, store, modalOpen, calc>>

handleTransitionAction_getProjectUsers(r) ==
    /\ At(r, "handleTransitionAction", "getProjectUsers")
    /\ \E o \in JiraOutcomes :
          LET rr == Logged(run[r],
                           Ext("getProjectUsers", ProjectKeyMatch(run[r].issueKey), o))
          IN run' = [run EXCEPT ![r] =
                 [rr EXCEPT !.pc = "render",
                            !.users = IF o = "ok" THEN "some" ELSE "none"]]
    /\ UNCHANGED <<surface, store, modalOpen, calc>>

\* variant: the re-rendered card does not replace the shared surface
handleTransitionAction_render_posted(r) ==
    /\ At(r, "handleTransitionAction", "render")
    /\ \E o \in SlackOutcomes :
          LET doc == Content("issueDoc", r, run[r].users = "some")
              m == Msg(doc, "absent", TRUE, FALSE)
              rr == Logged(run[r], Ext("respond", m, o))
          IN run' = [run EXCEPT ![r] =
                 IF o = "ok" THEN Finished(rr) ELSE Caught(rr, "none")]
    /\ UNCHANGED <<surface, store, modalOpen, calc>>

handleTransitionAction_render(r) ==
    /\ At(r, "handleTransitionAction", "render")
    /\ \E o \in SlackOutcomes :
          LET doc == Content("issueDoc", r, run[r].users = "some")
              m == Msg(doc, "absent", TRUE, FALSE)
              rr == Logged(run[r], Ext("respond", m, o))
          IN /\ run' = [run EXCEPT ![r] =
                    IF o = "ok" THEN Finished(rr) ELSE Caught(rr, "none")]
             /\ surface' = IF o = "ok" THEN doc ELSE surface
    /\ UNCHANGED <<store, modalOpen, calc>>

handleTransitionAction_catch(r) ==
    /\ At(r, "handleTransitionAction", "catch")
    /\ \E o \in SlackOutcomes :
          LET m == TransitionErrorMsg(r, run[r].err)
              rr == Logged(run[r], Ext("respond", m, o))
          IN /\ run' = [run EXCEPT ![r] = IF o = "ok" THEN Finished(rr) ELSE Thrown(rr)]
             /\ surface' = IF o = "ok" /\ ReplacesInPlace(m) THEN m.content ELSE surface
    /\ UNCHANGED <<store, modalOpen, calc>>

handleTransitionAction(r) ==
    \/ handleTransitionAction_ack(r)
    \/ handleTransitionAction_placeholder(r)
    \/ handleTransitionAction_mutate(r)
    \/ handleTransitionAction_getUserMapping(r)
    \/ handleTransitionAction_addComment(r)
    \/ handleTransitionAction_getIssue(r)
    \/ handleTransitionAction_getTransitions(r)
    \/ handleTransitionAction_getProjectUsers(r)
    \/ handleTransitionAction_render(r)
    \/ handleTransitionAction_catch(r)

(***************************************************************************)
(* handleAssignIssueAction                                                 *)
(***************************************************************************)
\* the synchronous prefix of the try block, up to the placeholder
AssignParsed(rr) ==
    LET v == rr.ev.value
    IN IF rr.ev.shape = "missing" THEN Finished(rr)
       ELSE IF v.parse # "object" THEN Caught(rr, "none")
       ELSE IF rr.ev.user = "missing" THEN Caught(rr, "none")
       ELSE [rr EXCEPT !.pc = "placeholder", !.issueKey = v.issueKey,
                       !.target = v.target]

\* an exception of the identity lookup or of the audit write
AssignAuditFailed(rr, status) == Caught(rr, status)

AssignErrorMsg(r, status) ==
    Msg(Content("error", r, FALSE), "absent", FALSE, TRUE)

\* variant: a rejected ack is ignored and the handler goes on
handleAssignIssueAction_ack_ignored(r) ==
    /\ At(r, "handleAssignIssueAction", "ack")
    /\ \E o \in SlackOutcomes :
          LET rr == Logged(run[r], Ext("ack", Null, o))
          IN run' = [run EXCEPT ![r] = AssignParsed(rr)]
    /\ UNCHANGED <<surface, store, modalOpen, calc>>

handleAssignIssueAction_ack(r) ==
    /\ At(r, "handleAssignIssueAction", "ack")
    /\ \E o \in SlackOutcomes :
          LET rr == Logged(run[r], Ext("ack", Null, o))
          IN run' = [run EXCEPT ![r] =
                 IF o = "ok" THEN AssignParsed(rr) ELSE Thrown(rr)]
    /\ UNCHANGED <<surface, store, modalOpen, calc>>

\* variant: the placeholder is best effort, its failure does not stop the run
handleAssignIssueAction_placeholder_besteffort(r) ==
    /\ At(r, "handleAssignIssueAction", "placeholder")
    /\ \E o \in SlackOutcomes :
          LET ph == Content("placeholder", r, FALSE)
              m == Msg(ph, "absent", TRUE, FALSE)
              rr == Logged(run[r], Ext("respond", m, o))
          IN /\ run' = [run EXCEPT ![r] = [rr EXCEPT !.pc = "mutate"]]
             /\ surface' = IF o = "ok" THEN ph ELSE surface
    /\ UNCHANGED <<store, modalOpen, calc>>

handleAssignIssueAction_placeholder(r) ==
    /\ At(r, "handleAssignIssueAction", "placeholder")
    /\ \E o \in SlackOutcomes :
          LET ph == Content("placeholder", r, FALSE)
              m == Msg(ph, "absent", TRUE, FALSE)
              rr == Logged(run[r], Ext("respond", m, o))
          IN /\ run' = [run EXCEPT ![r] =
                    IF o = "ok" THEN [rr EXCEPT !.pc = "mutate"] ELSE Caught(rr, "none")]
             /\ surface' = IF o = "ok" THEN ph ELSE surface
    /\ UNCHANGED <<store, modalOpen, calc>>

\* variant: a rejected assignment does not stop the run before the audit
handleAssignIssueAction_mutate_ignored(r) ==
    /\ At(r, "handleAssignIssueAction", "mutate")
    /\ \E o \in JiraOutcomes :
          LET rr == Logged(run[r],
                           Ext("assignIssue", <<run[r].issueKey, run[r].target>>, o))
          IN run' = [run EXCEPT ![r] = [rr EXCEPT !.pc = "getUserMapping"]]
    /\ UNCHANGED <<surface, store, modalOpen, calc>>

handleAssignIssueAction_mutate(r) ==
    /\ At(r, "handleAssignIssueAction", "mutate")
    /\ \E o \in JiraOutcomes :
          LET rr == Logged(run[r],
                           Ext("assignIssue", <<run[r].issueKey, run[r].target>>, o))
          IN run' = [run EXCEPT ![r] =
                 IF o = "ok" THEN [rr EXCEPT !.pc = "getUserMapping"] ELSE Caught(rr, o)]
    /\ UNCHANGED <<surface, store, modalOpen, calc>>

handleAssignIssueAction_getUserMapping(r) ==
    /\ At(r, "handleAssignIssueAction", "getUserMapping")
    /\ \E o \in SlackOutcomes :
          LET rr == Logged(run[r], Ext("getUserMapping", run[r].ev.user, o))
          IN run' = [run EXCEPT ![r] =
                 IF o = "ok"
                 THEN [rr EXCEPT !.pc = "addComment", !.userMap = GetRow(run[r].ev.user)]
                 ELSE AssignAuditFailed(rr, "none")]
    /\ UNCHANGED <<surface, store, modalOpen, calc>>

handleAssignIssueAction_addComment(r) ==
    /\ At(r, "handleAssignIssueAction", "addComment")
    /\ \E o \in JiraOutcomes :
          LET c == [issueKey |-> run[r].issueKey, what |-> "assignee",
                    actor |-> ActorText(run[r].userMap, run[r].ev.user)]
              rr == Logged(run[r], Ext("addComment", c, o))
          IN run' = [run EXCEPT ![r] =
                 IF o = "ok" THEN [rr EXCEPT !.pc = "getIssue"]
                 ELSE AssignAuditFailed(rr, o)]
    /\ UNCHANGED <<surface, store, modalOpen, calc>>

\* variant: a rejected refetch is not caught, the run stays suspended
handleAssignIssueAction_getIssue_hang(r) ==
    /\ At(r, "handleAssignIssueAction", "getIssue")
    /\ \E o \in JiraOutcomes :
          LET rr == Logged(run[r], Ext("getIssue", run[r].issueKey, o))
          IN run' = [run EXCEPT ![r] =
                 IF o = "ok" THEN [rr EXCEPT !.pc = "getTransitions"]
                 ELSE [rr EXCEPT !.pc = "suspended"]]
    /\ UNCHANGED <<surface, store, modalOpen, calc>>

handleAssignIssueAction_getIssue(r) ==
    /\ At(r, "handleAssignIssueAction", "getIssue")
    /\ \E o \in JiraOutcomes :
          LET rr == Logged(run[r], Ext("getIssue", run[r].issueKey, o))
          IN run' = [run EXCEPT ![r] =
                 IF o = "ok" THEN [rr EXCEPT !.pc = "getTransitions"] ELSE Caught(rr, o)]
    /\ UNCHANGED <<surface, store, modalOpen, calc>>

handleAssignIssueAction_getTransitions(r) ==
    /\ At(r, "handleAssignIssueAction", "getTransitions")
    /\ \E o \in JiraOutcomes :
          LET rr == Logged(run[r], Ext("getTransitions", run[r].issueKey, o))
          IN run' = [run EXCEPT ![r] =
                 IF o # "ok" THEN Caught(rr, o)
                 ELSE IF run[r].issueKey = UndefinedKey THEN Caught(rr, "none")
                 ELSE IF ProjectKeyMatch(run[r].issueKey) # <<>>
                      THEN [rr EXCEPT !.pc = "getProjectUsers"]
                      ELSE [rr EXCEPT !.pc = "render"]]
    /\ UNCHANGED <<surface, store, modalOpen, calc>>

handleAssignIssueAction_getProjectUsers(r) ==
    /\ At(r, "handleAssignIssueAction", "getProjectUsers")
    /\ \E o \in JiraOutcomes :
          LET rr == Logged(run[r],
                           Ext("getProjectUsers", ProjectKeyMatch(run[r].issueKey), o))
          IN run' = [run EXCEPT ![r] =
                 [rr EXCEPT !.pc = "render",
                            !.users = IF o = "ok" THEN "some" ELSE "none"]]
    /\ UNCHANGED <<surface, store, modalOpen, calc>>

handleAssignIssueAction_render(r) ==
    /\ At(r, "handleAssignIssueAction", "render")
    /\ \E o \in SlackOutcomes :
          LET doc == Content("issueDoc", r, run[r].users = "some")
              m == Msg(doc, "absent", TRUE, FALSE)
              rr == Logged(run[r], Ext("respond", m, o))
          IN /\ run' = [run EXCEPT ![r] =
                    IF o = "ok" THEN Finished(rr) ELSE Caught(rr, "none")]
             /\ surface' = IF o = "ok" THEN doc ELSE surface
    /\ UNCHANGED <<store, modalOpen, calc>>

handleAssignIssueAction_catch(r) ==
    /\ At(r, "handleAssignIssueAction", "catch")
    /\ \E o \in SlackOutcomes :
          LET m == AssignErrorMsg(r, run[r].err)
              rr == Logged(run[r], Ext("respond", m, o))
          IN /\ run' = [run EXCEPT ![r] = IF o = "ok" THEN Finished(rr) ELSE Thrown(rr)]
             /\ surface' = IF o = "ok" /\ ReplacesInPlace(m) THEN m.content ELSE surface
    /\ UNCHANGED <<store, modalOpen, calc>>

handleAssignIssueAction(r) ==
    \/ handleAssignIssueAction_ack(r)
    \/ handleAssignIssueAction_placeholder(r)
    \/ handleAssignIssueAction_mutate(r)
    \/ handleAssignIssueAction_getUserMapping(r)
    \/ handleAssignIssueAction_addComment(r)
    \/ handleAssignIssueAction_getIssue(r)
    \/ handleAssignIssueAction_getTransitions(r)
    \/ handleAssignIssueAction_getProjectUsers(r)
    \/ handleAssignIssueAction_render(r)
    \/ handleAssignIssueAction_catch(r)

(***************************************************************************)
(* handleOpenCommentModal                                                  *)
(***************************************************************************)
\* a catch block that only logs: the run ends without a message
LoggedOnly(rr) == [rr EXCEPT !.pc = "done", !.failed = TRUE]

handleOpenCommentModal_ack(r) ==
    /\ At(r, "handleOpenCommentModal", "ack")
    /\ \E o \in SlackOutcomes :
          LET rr == Logged(run[r], Ext("ack", Null, o))
          IN run' = [run EXCEPT ![r] =
                 IF o # "ok" THEN Thrown(rr)
                 ELSE IF run[r].ev.shape = "missing" THEN Thrown(rr)
                 ELSE [rr EXCEPT !.pc = "viewsOpen", !.issueKey = run[r].ev.text]]
    /\ UNCHANGED <<surface, store, modalOpen, calc>>

handleOpenCommentModal_viewsOpen(r) ==
    /\ At(r, "handleOpenCommentModal", "viewsOpen")
    /\ \E o \in SlackOutcomes :
          LET rr == Logged(run[r], Ext("views.open", run[r].issueKey, o))
          IN /\ run' = [run EXCEPT ![r] =
                    IF o = "ok" THEN Finished(rr) ELSE LoggedOnly(rr)]
             /\ modalOpen' = IF o = "ok" THEN TRUE ELSE modalOpen
    /\ UNCHANGED <<surface, store, calc>>

handleOpenCommentModal(r) ==
    \/ handleOpenCommentModal_ack(r)
    \/ handleOpenCommentModal_viewsOpen(r)

(***************************************************************************)
(* handleCommentSubmit                                                     *)
(***************************************************************************)
handleCommentSubmit_ack(r) ==
    /\ At(r, "handleCommentSubmit", "ack")
    /\ \E o \in SlackOutcomes :
          LET rr == Logged(run[r], Ext("ack", Null, o))
          IN run' = [run EXCEPT ![r] =
                 IF o # "ok" THEN Thrown(rr)
                 ELSE IF run[r].ev.shape = "missing" \/ run[r].ev.user = "missing"
                      THEN Thrown(rr)
                 ELSE [rr EXCEPT !.pc = "getUserMapping", !.issueKey = run[r].ev.text]]
    /\ UNCHANGED <<surface, store, modalOpen, calc>>

handleCommentSubmit_getUserMapping(r) ==
    /\ At(r, "handleCommentSubmit", "getUserMapping")
    /\ \E o \in SlackOutcomes :
          LET rr == Logged(run[r], Ext("getUserMapping", run[r].ev.user, o))
          IN run' = [run EXCEPT ![r] =
                 IF o = "ok"
                 THEN [rr EXCEPT !.pc = "addComment", !.userMap = GetRow(run[r].ev.user)]
                 ELSE LoggedOnly(rr)]
    /\ UNCHANGED <<surface, store, modalOpen, calc>>

\* variant: the success message does not wait for the outcome of the write
handleCommentSubmit_addComment_optimistic(r) ==
    /\ At(r, "handleCommentSubmit", "addComment")
    /\ \E o \in JiraOutcomes :
          LET c == [issueKey |-> run[r].issueKey, what |-> "comment",
                    actor |-> ActorText(run[r].userMap, run[r].ev.user)]
              rr == Logged(run[r], Ext("addComment", c, o))
          IN run' = [run EXCEPT ![r] = [rr EXCEPT !.pc = "postMessage"]]
    /\ UNCHANGED <<surface, store, modalOpen, calc>>

handleCommentSubmit_addComment(r) ==
    /\ At(r, "handleCommentSubmit", "addComment")
    /\ \E o \in JiraOutcomes :
          LET c == [issueKey |-> run[r].issueKey, what |-> "comment",
                    actor |-> ActorText(run[r].userMap, run[r].ev.user)]
              rr == Logged(run[r], Ext("addComment", c, o))
          IN run' = [run EXCEPT ![r] =
                 IF o = "ok" THEN [rr EXCEPT !.pc = "postMessage"] ELSE LoggedOnly(rr)]
    /\ UNCHANGED <<surface, store, modalOpen, calc>>

handleCommentSubmit_postMessage(r) ==
    /\ At(r, "handleCommentSubmit", "postMessage")
    /\ \E o \in SlackOutcomes :
          LET rr == Logged(run[r], Ext("chat.postMessage", run[r].ev.user, o))
          IN run' = [run EXCEPT ![r] =
                 IF o = "ok" THEN Finished(rr) ELSE LoggedOnly(rr)]
    /\ UNCHANGED <<surface, store, modalOpen, calc>>

handleCommentSubmit(r) ==
    \/ handleCommentSubmit_ack(r)
    \/ handleCommentSubmit_getUserMapping(r)
    \/ handleCommentSubmit_addComment(r)
    \/ handleCommentSubmit_postMessage(r)

(***************************************************************************)
(* handleJiraReportCommand and handleJiraTeamCommand (same control flow)   *)
(***************************************************************************)
MetricsHandlers == {"handleJiraReportCommand", "handleJiraTeamCommand"}

MetricsCommand_ack(r, h) ==
    /\ At(r, h, "ack")
    /\ \E o \in SlackOutcomes :
          LET rr == Logged(run[r], Ext("ack", Null, o))
              projectKey == Trim(run[r].ev.text)
          IN run' = [run EXCEPT ![r] =
                 IF o # "ok" THEN Thrown(rr)
                 ELSE IF projectKey = Empty THEN [rr EXCEPT !.pc = "usage"]
                 ELSE [rr EXCEPT !.pc = "loading", !.issueKey = projectKey]]
    /\ UNCHANGED <<surface, store, modalOpen, calc>>

MetricsCommand_usage(r, h) ==
    /\ At(r, h, "usage")
    /\ \E o \in SlackOutcomes :
          LET m == Msg(Content("usage", r, FALSE), "ephemeral", FALSE, FALSE)
              rr == Logged(run[r], Ext("respond", m, o))
          IN run' = [run EXCEPT ![r] = IF o = "ok" THEN Finished(rr) ELSE Thrown(rr)]
    /\ UNCHANGED <<surface, store, modalOpen, calc>>

MetricsCommand_loading(r, h) ==
    /\ At(r, h, "loading")
    /\ \E o \in SlackOutcomes :
          LET m == Msg(Content("loading", r, FALSE), "ephemeral", FALSE, FALSE)
              rr == Logged(run[r], Ext("respond", m, o))
          IN run' = [run EXCEPT ![r] =
                 IF o = "ok" THEN [rr EXCEPT !.pc = "getProjectMetrics"]
                 ELSE Caught(rr, "none")]
    /\ UNCHANGED <<surface, store, modalOpen, calc>>

MetricsCommand_getProjectMetrics(r, h) ==
    /\ At(r, h, "getProjectMetrics")
    /\ \E o \in JiraOutcomes :
          LET rr == Logged(run[r], Ext("getProjectMetrics", run[r].issueKey, o))
          IN run' = [run EXCEPT ![r] =
                 IF o = "ok" THEN [rr EXCEPT !.pc = "render"] ELSE Caught(rr, o)]
    /\ UNCHANGED <<surface, store, modalOpen, calc>>

MetricsCommand_render(r, h) ==
    /\ At(r, h, "render")
    /\ \E o \in SlackOutcomes :
          LET m == Msg(Content("statsDoc", r, FALSE), "in_channel", FALSE, FALSE)
              rr == Logged(run[r], Ext("respond", m, o))
          IN run' = [run EXCEPT ![r] =
                 IF o = "ok" THEN Finished(rr) ELSE Caught(rr, "none")]
    /\ UNCHANGED <<surface, store, modalOpen, calc>>

MetricsCommand_catch(r, h) ==
    /\ At(r, h, "catch")
    /\ \E o \in SlackOutcomes :
          LET m == Msg(Content("error", r, FALSE), "ephemeral", FALSE, FALSE)
              rr == Logged(run[r], Ext("respond", m, o))
          IN run' = [run EXCEPT ![r] = IF o = "ok" THEN Finished(rr) ELSE Thrown(rr)]
    /\ UNCHANGED <<surface, store, modalOpen, calc>>

MetricsCommand(r) ==
    \E h \in MetricsHandlers :
        \/ MetricsCommand_ack(r, h)
        \/ MetricsCommand_usage(r, h)
        \/ MetricsCommand_loading(r, h)
        \/ MetricsCommand_getProjectMetrics(r, h)
        \/ MetricsCommand_render(r, h)
        \/ MetricsCommand_catch(r, h)

(***************************************************************************)
(* handleJiraProjectsCommand                                               *)
(***************************************************************************)
handleJiraProjectsCommand_ack(r) ==
    /\ At(r, "handleJiraProjectsCommand", "ack")
    /\ \E o \in SlackOutcomes :
          LET rr == Logged(run[r], Ext("ack", Null, o))
          IN run' = [run EXCEPT ![r] =
                 IF o = "ok" THEN [rr EXCEPT !.pc = "loading"] ELSE Thrown(rr)]
    /\ UNCHANGED <<surface, store, modalOpen, calc>>

handleJiraProjectsCommand_loading(r) ==
    /\ At(r, "handleJiraProjectsCommand", "loading")
    /\ \E o \in SlackOutcomes :
          LET m == Msg(Content("loading", r, FALSE), "ephemeral", FALSE, FALSE)
              rr == Logged(run[r], Ext("respond", m, o))
          IN run' = [run EXCEPT ![r] =
                 IF o = "ok" THEN [rr EXCEPT !.pc = "getProjects"] ELSE Caught(rr, "none")]
    /\ UNCHANGED <<surface, store, modalOpen, calc>>

handleJiraProjectsCommand_getProjects(r) ==
    /\ At(r, "handleJiraProjectsCommand", "getProjects")
    /\ \E o \in JiraOutcomes :
          LET rr == Logged(run[r], Ext("getProjects", Null, o))
          IN run' = [run EXCEPT ![r] =
                 IF o = "ok" THEN [rr EXCEPT !.pc = "render"] ELSE Caught(rr, o)]
    /\ UNCHANGED <<surface, store, modalOpen, calc>>

handleJiraProjectsCommand_render(r) ==
    /\ At(r, "handleJiraProjectsCommand", "render")
    /\ \E o \in SlackOutcomes :
          LET m == Msg(Content("projectsDoc", r, FALSE), "ephemeral", FALSE, FALSE)
              rr == Logged(run[r], Ext("respond", m, o))
          IN run' = [run EXCEPT ![r] =
                 IF o = "ok" THEN Finished(rr) ELSE Caught(rr, "none")]
    /\ UNCHANGED <<surface, store, modalOpen, calc>>

handleJiraProjectsCommand_catch(r) ==
    /\ At(r, "handleJiraProjectsCommand", "catch")
    /\ \E o \in SlackOutcomes :
          LET m == Msg(Content("error", r, FALSE), "ephemeral", FALSE, FALSE)
              rr == Logged(run[r], Ext("respond", m, o))
          IN run' = [run EXCEPT ![r] = IF o = "ok" THEN Finished(rr) ELSE Thrown(rr)]
    /\ UNCHANGED <<surface, store, modalOpen, calc>>

handleJiraProjectsCommand(r) ==
    \/ handleJiraProjectsCommand_ack(r)
    \/ handleJiraProjectsCommand_loading(r)
    \/ handleJiraProjectsCommand_getProjects(r)
    \/ handleJiraProjectsCommand_render(r)
    \/ handleJiraProjectsCommand_catch(r)

(***************************************************************************)
(* handleJiraMapCommand                                                    *)
(***************************************************************************)
\* String.prototype.includes for a single character
Includes(s, ch) == \E i \in 1..Len(s) : s[i] = ch

\* the tracker's user directory: users[0].accountId for a search query
Directory(query) ==
    CASE query = EmailY -> "acctY"
      [] query = EmailZ -> Null
      [] OTHER -> "acctX"

\* outcomes of /user/search: a hit, an empty list, or an error status
SearchOutcomes == JiraOutcomes \cup {"empty"}

\* db.saveUserMapping(slackId, accountId, email): upsert by chat id
SaveUserMapping(st, slackId, accountId, email) ==
    {e \in st : e.slack_id # slackId} \cup {Entry(slackId, accountId, email)}

\* variant: the email is searched without being checked for '@'
handleJiraMapCommand_ack_unchecked(r) ==
    /\ At(r, "handleJiraMapCommand", "ack")
    /\ \E o \in SlackOutcomes :
          LET rr == Logged(run[r], Ext("ack", Null, o))
          IN run' = [run EXCEPT ![r] =
                 IF o # "ok" THEN Thrown(rr) ELSE [rr EXCEPT !.pc = "searchUser"]]
    /\ UNCHANGED <<surface, store, modalOpen, calc>>

handleJiraMapCommand_ack(r) ==
    /\ At(r, "handleJiraMapCommand", "ack")
    /\ \E o \in SlackOutcomes :
          LET rr == Logged(run[r], Ext("ack", Null, o))
              email == Trim(run[r].ev.text)
          IN run' = [run EXCEPT ![r] =
                 IF o # "ok" THEN Thrown(rr)
                 ELSE IF email = Empty \/ ~Includes(email, "@")
                      THEN [rr EXCEPT !.pc = "usage"]
                 ELSE [rr EXCEPT !.pc = "searchUser"]]
    /\ UNCHANGED <<surface, store, modalOpen, calc>>

handleJiraMapCommand_usage(r) ==
    /\ At(r, "handleJiraMapCommand", "usage")
    /\ \E o \in SlackOutcomes :
          LET m == Msg(Content("usage", r, FALSE), "ephemeral", FALSE, FALSE)
              rr == Logged(run[r], Ext("respond", m, o))
          IN run' = [run EXCEPT ![r] = IF o = "ok" THEN Finished(rr) ELSE Thrown(rr)]
    /\ UNCHANGED <<surface, store, modalOpen, calc>>

\* variant: the search hit is kept in a variable shared by all runs
handleJiraMapCommand_searchUser_shared(r) ==
    /\ At(r, "handleJiraMapCommand", "searchUser")
    /\ \E o \in SearchOutcomes :
          LET email == Trim(run[r].ev.text)
              rr == Logged(run[r], Ext("searchUser", email, o))
          IN run' = [q \in Runs |->
                 IF q # r
                 THEN IF o = "ok" THEN [run[q] EXCEPT !.target = Directory(email)]
                      ELSE run[q]
                 ELSE IF o = "ok"
                 THEN [rr EXCEPT !.pc = "saveUserMapping", !.target = Directory(email)]
                 ELSE IF o = "empty" THEN [rr EXCEPT !.pc = "notfound"]
                 ELSE Caught(rr, o)]
    /\ UNCHANGED <<surface, store, modalOpen, calc>>

handleJiraMapCommand_searchUser(r) ==
    /\ At(r, "handleJiraMapCommand", "searchUser")
    /\ \E o \in SearchOutcomes :
          LET email == Trim(run[r].ev.text)
              rr == Logged(run[r], Ext("searchUser", email, o))
          IN run' = [run EXCEPT ![r] =
                 IF o = "ok"
                 THEN [rr EXCEPT !.pc = "saveUserMapping", !.target = Directory(email)]
                 ELSE IF o = "empty" THEN [rr EXCEPT !.pc = "notfound"]
                 ELSE Caught(rr, o)]
    /\ UNCHANGED <<surface, store, modalOpen, calc>>

\* variant: an existing mapping is kept, only a first link is stored
handleJiraMapCommand_saveUserMapping_first(r) ==
    /\ At(r, "handleJiraMapCommand", "saveUserMapping")
    /\ \E o \in SlackOutcomes :
          LET email == Trim(run[r].ev.text)
              arg == [slackId |-> run[r].ev.user, row |-> Row(run[r].target, email),
                      old |-> GetRow(run[r].ev.user)]
              rr == Logged(run[r], Ext("saveUserMapping", arg, o))
          IN /\ run' = [run EXCEPT ![r] =
                    IF o = "ok" THEN [rr EXCEPT !.pc = "linked"] ELSE Caught(rr, "none")]
             /\ store' = IF o = "ok" /\ ~GetRow(run[r].ev.user).present
                         THEN SaveUserMapping(store, run[r].ev.user, run[r].target, email)
                         ELSE store
    /\ UNCHANGED <<surface, modalOpen, calc>>

\* the log entry also keeps the row the upsert replaced
handleJiraMapCommand_saveUserMapping(r) ==
    /\ At(r, "handleJiraMapCommand", "saveUserMapping")
    /\ \E o \in SlackOutcomes :
          LET email == Trim(run[r].ev.text)
              arg == [slackId |-> run[r].ev.user, row |-> Row(run[r].target, email),
                      old |-> GetRow(run[r].ev.user)]
              rr == Logged(run[r], Ext("saveUserMapping", arg, o))
          IN /\ run' = [run EXCEPT ![r] =
                    IF o = "ok" THEN [rr EXCEPT !.pc = "linked"] ELSE Caught(rr, "none")]
             /\ store' = IF o = "ok"
                         THEN SaveUserMapping(store, run[r].ev.user, run[r].target, email)
                         ELSE store
    /\ UNCHANGED <<surface, modalOpen, calc>>

handleJiraMapCommand_linked(r) ==
    /\ At(r, "handleJiraMapCommand", "linked")
    /\ \E o \in SlackOutcomes :
          LET m == Msg(Content("linked", r, FALSE), "ephemeral", FALSE, FALSE)
              rr == Logged(run[r], Ext("respond", m, o))
          IN run' = [run EXCEPT ![r] =
                 IF o = "ok" THEN Finished(rr) ELSE Caught(rr, "none")]
    /\ UNCHANGED <<surface, store, modalOpen, calc>>

handleJiraMapCommand_notfound(r) ==
    /\ At(r, "handleJiraMapCommand", "notfound")
    /\ \E o \in SlackOutcomes :
          LET m == Msg(Content("notfound", r, FALSE), "ephemeral", FALSE, FALSE)
              rr == Logged(run[r], Ext("respond", m, o))
          IN run' = [run EXCEPT ![r] =
                 IF o = "ok" THEN Finished(rr) ELSE Caught(rr, "none")]
    /\ UNCHANGED <<surface, store, modalOpen, calc>>

handleJiraMapCommand_catch(r) ==
    /\ At(r, "handleJiraMapCommand", "catch")
    /\ \E o \in SlackOutcomes :
          LET m == Msg(Content("error", r, FALSE), "ephemeral", FALSE, FALSE)
              rr == Logged(run[r], Ext("respond", m, o))
          IN run' = [run EXCEPT ![r] = IF o = "ok" THEN Finished(rr) ELSE Thrown(rr)]
    /\ UNCHANGED <<surface, store, modalOpen, calc>>

handleJiraMapCommand(r) ==
    \/ handleJiraMapCommand_ack(r)
    \/ handleJiraMapCommand_usage(r)
    \/ handleJiraMapCommand_searchUser(r)
    \/ handleJiraMapCommand_saveUserMapping(r)
    \/ handleJiraMapCommand_linked(r)
    \/ handleJiraMapCommand_notfound(r)
    \/ handleJiraMapCommand_catch(r)

(***************************************************************************)
(* handleJiraTasksCommand                                                  *)
(***************************************************************************)
handleJiraTasksCommand_ack(r) ==
    /\ At(r, "handleJiraTasksCommand", "ack")
    /\ \E o \in SlackOutcomes :
          LET rr == Logged(run[r], Ext("ack", Null, o))
              targetUser == Trim(run[r].ev.text)
          IN run' = [run EXCEPT ![r] =
                 IF o # "ok" THEN Thrown(rr)
                 ELSE IF targetUser # Empty THEN [rr EXCEPT !.pc = "searchUser"]
                 ELSE [rr EXCEPT !.pc = "getUserMapping"]]
    /\ UNCHANGED <<surface, store, modalOpen, calc>>

handleJiraTasksCommand_searchUser(r) ==
    /\ At(r, "handleJiraTasksCommand", "searchUser")
    /\ \E o \in SearchOutcomes :
          LET targetUser == Trim(run[r].ev.text)
              rr == Logged(run[r], Ext("searchUser", targetUser, o))
          IN run' = [run EXCEPT ![r] =
                 IF o = "ok"
                 THEN [rr EXCEPT !.pc = "loading", !.target = Directory(targetUser)]
                 ELSE IF o = "empty" THEN [rr EXCEPT !.pc = "notfound"]
                 ELSE Caught(rr, o)]
    /\ UNCHANGED <<surface, store, modalOpen, calc>>

handleJiraTasksCommand_getUserMapping(r) ==
    /\ At(r, "handleJiraTasksCommand", "getUserMapping")
    /\ \E o \in SlackOutcomes :
          LET rr == Logged(run[r], Ext("getUserMapping", run[r].ev.user, o))
              userMap == GetRow(run[r].ev.user)
          IN run' = [run EXCEPT ![r] =
                 IF o # "ok" THEN Caught(rr, "none")
                 ELSE IF userMap.present /\ userMap.jira_account_id # Null
                      THEN [rr EXCEPT !.pc = "loading", !.userMap = userMap,
                                      !.target = userMap.jira_account_id]
                 ELSE [rr EXCEPT !.pc = "notfound", !.userMap = userMap]]
    /\ UNCHANGED <<surface, store, modalOpen, calc>>

\* the early-return notices: account not found, or chat user not linked
handleJiraTasksCommand_notfound(r) ==
    /\ At(r, "handleJiraTasksCommand", "notfound")
    /\ \E o \in SlackOutcomes :
          LET kind == IF Trim(run[r].ev.text) # Empty THEN "notfound" ELSE "unlinked"
              m == Msg(Content(kind, r, FALSE), "ephemeral", FALSE, FALSE)
              rr == Logged(run[r], Ext("respond", m, o))
          IN run' = [run EXCEPT ![r] =
                 IF o = "ok" THEN Finished(rr) ELSE Caught(rr, "none")]
    /\ UNCHANGED <<surface, store, modalOpen, calc>>

handleJiraTasksCommand_loading(r) ==
    /\ At(r, "handleJiraTasksCommand", "loading")
    /\ \E o \in SlackOutcomes :
          LET m == Msg(Content("loading", r, FALSE), "ephemeral", FALSE, FALSE)
              rr == Logged(run[r], Ext("respond", m, o))
          IN run' = [run EXCEPT ![r] =
                 IF o = "ok" THEN [rr EXCEPT !.pc = "getUserIssues"] ELSE Caught(rr, "none")]
    /\ UNCHANGED <<surface, store, modalOpen, calc>>

handleJiraTasksCommand_getUserIssues(r) ==
    /\ At(r, "handleJiraTasksCommand", "getUserIssues")
    /\ \E o \in JiraOutcomes :
          LET rr == Logged(run[r], Ext("getUserIssues", run[r].target, o))
          IN run' = [run EXCEPT ![r] =
                 IF o = "ok" THEN [rr EXCEPT !.pc = "render"] ELSE Caught(rr, o)]
    /\ UNCHANGED <<surface, store, modalOpen, calc>>

handleJiraTasksCommand_render(r) ==
    /\ At(r, "handleJiraTasksCommand", "render")
    /\ \E o \in SlackOutcomes :
          LET m == Msg(Content("tasksDoc", r, FALSE), "ephemeral", FALSE, FALSE)
              rr == Logged(run[r], Ext("respond", m, o))
          IN run' = [run EXCEPT ![r] =
                 IF o = "ok" THEN Finished(rr) ELSE Caught(rr, "none")]
    /\ UNCHANGED <<surface, store, modalOpen, calc>>

handleJiraTasksCommand_catch(r) ==
    /\ At(r, "handleJiraTasksCommand", "catch")
    /\ \E o \in SlackOutcomes :
          LET m == Msg(Content("error", r, FALSE), "ephemeral", FALSE, FALSE)
              rr == Logged(run[r], Ext("respond", m, o))
          IN run' = [run EXCEPT ![r] = IF o = "ok" THEN Finished(rr) ELSE Thrown(rr)]
    /\ UNCHANGED <<surface, store, modalOpen, calc>>

handleJiraTasksCommand(r) ==
    \/ handleJiraTasksCommand_ack(r)
    \/ handleJiraTasksCommand_searchUser(r)
    \/ handleJiraTasksCommand_getUserMapping(r)
    \/ handleJiraTasksCommand_notfound(r)
    \/ handleJiraTasksCommand_loading(r)
    \/ handleJiraTasksCommand_getUserIssues(r)
    \/ handleJiraTasksCommand_render(r)
    \/ handleJiraTasksCommand_catch(r)

(***************************************************************************)
(* utils/slackBlocks: buildProjectStatsBlocks                              *)
(***************************************************************************)
barLength == 20

\* the eight block emojis, the last one being the empty square
blockEmojis == <<"green", "yellow", "blue", "purple", "orange", "red", "brown", "white">>

\* a missing or empty name, as read through `?.name || ...`
NoName == ""

\* A Number is an IEEE 754 double: a significand of 53 bits, m[1] = 1 first,
\* and an exponent e, standing for 1.m[2]m[3]... * 2^e; Zero has no bits.
Significand == 53

Zero == [m |-> <<>>, e |-> 0]

\* round to nearest, ties to even: bits are the exact digits from the leading
\* 1 on, sticky tells that non-zero digits follow them
Nearest(bits, sticky, e) ==
    LET m == SubSeq(bits, 1, Significand)
        guard == IF Len(bits) > Significand THEN bits[Significand + 1] ELSE 0
        rest == sticky \/ \E j \in (Significand + 2)..Len(bits) : bits[j] = 1
        up == guard = 1 /\ (rest \/ m[Significand] = 1)
    IN IF ~up THEN [m |-> m, e |-> e]
       ELSE IF \A j \in 1..Significand : m[j] = 1
       THEN [m |-> [j \in 1..Significand |-> IF j = 1 THEN 1 ELSE 0], e |-> e + 1]
       ELSE LET i == CHOOSE k \in 1..Significand :
                         m[k] = 0 /\ \A l \in (k + 1)..Significand : m[l] = 1
            IN [m |-> [j \in 1..Significand |->
                          IF j < i THEN m[j] ELSE IF j = i THEN 1 ELSE 0],
                e |-> e]

RECURSIVE LongDivision(_, _, _)
\* the next n binary digits of r / d for r < d, followed by the remainder
LongDivision(r, d, n) ==
    IF n = 0 THEN <<r>>
    ELSE IF 2 * r >= d THEN <<1>> \o LongDivision(2 * r - d, d, n - 1)
    ELSE <<0>> \o LongDivision(2 * r, d, n - 1)

RECURSIVE Doublings(_, _)
\* the least k with a * 2^k >= b
Doublings(a, b) == IF a >= b THEN 0 ELSE 1 + Doublings(2 * a, b)

RECURSIVE Halvings(_, _)
\* the greatest k with b * 2^k <= a, for a >= b
Halvings(a, b) == IF a < 2 * b THEN 0 ELSE 1 + Halvings(a, 2 * b)

\* a / b for two integer-valued Numbers a >= 0 and b > 0
Quotient(a, b) ==
    IF a = 0 THEN Zero
    ELSE LET e == IF a >= b THEN Halvings(a, b) ELSE 0 - Doublings(a, b)
             n == IF a >= b THEN a ELSE a * 2^(0 - e)
             d == IF a >= b THEN b * 2^e ELSE b
             digits == LongDivision(n - d, d, Significand)
         IN Nearest(<<1>> \o SubSeq(digits, 1, Significand),
                    digits[Significand + 1] # 0, e)

RECURSIVE Binary(_)
Binary(n) == IF n = 0 THEN <<>> ELSE Append(Binary(n \div 2), n % 2)

RECURSIVE Product(_, _, _, _)
\* the binary digits of (m[1..i] read as a number) * k + carry
Product(m, k, i, carry) ==
    IF i = 0 THEN Binary(carry)
    ELSE IF (m[i] * k + carry) % 2 = 1
    THEN Append(Product(m, k, i - 1, (m[i] * k + carry) \div 2), 1)
    ELSE Append(Product(m, k, i - 1, (m[i] * k + carry) \div 2), 0)

\* x * k for a Number x and an integer-valued Number k >= 0
Times(x, k) ==
    IF x.m = <<>> \/ k = 0 THEN Zero
    ELSE LET digits == Product(x.m, k, Significand, 0)
         IN Nearest(digits, FALSE, x.e + Len(digits) - Significand)

RECURSIVE Value(_)
Value(bits) ==
    IF bits = <<>> THEN 0
    ELSE 2 * Value(SubSeq(bits, 1, Len(bits) - 1)) + bits[Len(bits)]

\* Math.round(x) for x >= 0: the nearest integer, a half goes up
MathRound(x) ==
    IF x.m = <<>> \/ x.e < 0 - 1 THEN 0
    ELSE IF x.e = 0 - 1 THEN 1
    ELSE Value(SubSeq(x.m, 1, x.e + 1))
             + (IF x.e + 2 <= Significand THEN x.m[x.e + 2] ELSE 0)

Repeat(e, n) == [i \in 1..n |-> e]

\* issue.fields?.status?.name || 'Unknown'
StatusName(issue) == IF issue.status = NoName THEN "Unknown" ELSE issue.status

\* one step of the counting loop: entries keep the order of first insertion
Tally(entries, name) ==
    IF \E i \in DOMAIN entries : entries[i][1] = name
    THEN LET i == CHOOSE k \in DOMAIN entries : entries[k][1] = name
         IN [entries EXCEPT ![i] = <<name, entries[i][2] + 1>>]
    ELSE Append(entries, <<name, 1>>)

RECURSIVE StatusCounts(_, _)
\* statusCounts after the first n issues, as Object.entries lists it
StatusCounts(issues, n) ==
    IF n = 0 THEN <<>>
    ELSE Tally(StatusCounts(issues, n - 1), StatusName(issues[n]))

\* variant: the comparator orders ascending
CompareCounts_ascending(a, b) == a[2] - b[2]

\* the comparator (a, b) => b[1] - a[1]
CompareCounts(a, b) == b[2] - a[2]

\* Array.prototype.sort with CompareCounts: a stable sort, so entry j
\* precedes entry i when the comparator puts it first, or ties and j < i
SortByCount(entries) ==
    LET n == Len(entries)
        Pos(i) == 1 + Cardinality({j \in 1..n :
                         \/ CompareCounts(entries[j], entries[i]) < 0
                         \/ CompareCounts(entries[j], entries[i]) = 0 /\ j < i})
    IN [p \in 1..n |-> entries[CHOOSE i \in 1..n : Pos(i) = p]]

\* Math.round((count / fetchedCount) * 100) || 0
Percent(count, fetchedCount) ==
    IF fetchedCount = 0 THEN 0 ELSE MathRound(Times(Quotient(count, fetchedCount), 100))

RECURSIVE BarAfter(_, _, _)
\* progressBar and remainingBars after the first k sorted statuses
BarAfter(sortedStatuses, fetchedCount, k) ==
    IF k = 0 THEN [progressBar |-> <<>>, remainingBars |-> barLength]
    ELSE LET prev == BarAfter(sortedStatuses, fetchedCount, k - 1)
             blockEmoji == blockEmojis[((k - 1) % Len(blockEmojis)) + 1]
             percent == Percent(sortedStatuses[k][2], fetchedCount)
             rounded == MathRound(Times(Quotient(percent, 100), barLength))
             last == k = Len(sortedStatuses)
             segments == IF last THEN prev.remainingBars ELSE rounded
             left == prev.remainingBars - rounded
         IN [progressBar |-> prev.progressBar \o Repeat(blockEmoji, segments),
             remainingBars |-> IF last THEN prev.remainingBars
                               ELSE IF left < 0 THEN 0 ELSE left]

\* metricsData.total || issues.length
TotalIssues(metricsData) ==
    IF metricsData.total # 0 THEN metricsData.total ELSE Len(metricsData.issues)

EmptyState == [kind |-> "empty"]

buildProjectStatsBlocks(metricsData) ==
    LET issues == metricsData.issues
        fetchedCount == Len(issues)
        sortedStatuses == SortByCount(StatusCounts(issues, fetchedCount))
        bar == BarAfter(sortedStatuses, fetchedCount, Len(sortedStatuses)).progressBar
    IN IF TotalIssues(metricsData) = 0 THEN EmptyState
       ELSE [kind |-> "populated",
             progressBar |-> IF Len(bar) = 0 THEN Repeat("white", barLength) ELSE bar,
             progressLabels |-> [k \in DOMAIN sortedStatuses |->
                                   <<Percent(sortedStatuses[k][2], fetchedCount),
                                     sortedStatuses[k][1]>>],
             statusFields |-> sortedStatuses,
             fetchedCount |-> fetchedCount,
             totalIssues |-> TotalIssues(metricsData)]

(***************************************************************************)
(* utils/slackBlocks: buildAssigneeStatsBlocks                             *)
(***************************************************************************)
\* issue.fields?.assignee?.displayName || 'Unassigned'
AssigneeName(issue) == IF issue.assignee = NoName THEN "Unassigned" ELSE issue.assignee

\* variant: an issue without assignee is skipped
GroupIssue_assignedOnly(stats, issue) ==
    LET name == AssigneeName(issue)
        st == StatusName(issue)
    IN IF issue.assignee = NoName THEN stats
       ELSE IF \E i \in DOMAIN stats : stats[i].name = name
       THEN LET i == CHOOSE k \in DOMAIN stats : stats[k].name = name
            IN [stats EXCEPT ![i] = [name |-> name, total |-> stats[i].total + 1,
                                     statuses |-> Tally(stats[i].statuses, st)]]
       ELSE Append(stats, [name |-> name, total |-> 1, statuses |-> <<<<st, 1>>>>])

\* the body of the grouping loop: the assignee's bucket is created on first
\* sight, its total and the sub-count of the issue's status go up by one
GroupIssue(stats, issue) ==
    LET name == AssigneeName(issue)
        st == StatusName(issue)
    IN IF \E i \in DOMAIN stats : stats[i].name = name
       THEN LET i == CHOOSE k \in DOMAIN stats : stats[k].name = name
            IN [stats EXCEPT ![i] = [name |-> name, total |-> stats[i].total + 1,
                                     statuses |-> Tally(stats[i].statuses, st)]]
       ELSE Append(stats, [name |-> name, total |-> 1, statuses |-> <<<<st, 1>>>>])

RECURSIVE AssigneeStats(_, _)
\* assigneeStats after the first n issues, as Object.entries lists it
AssigneeStats(issues, n) ==
    IF n = 0 THEN <<>>
    ELSE GroupIssue(AssigneeStats(issues, n - 1), issues[n])

\* variant: the comparator never reorders
CompareTotals_equal(a, b) == 0

\* the comparator (a, b) => b[1].total - a[1].total
CompareTotals(a, b) == b.total - a.total

SortByTotal(stats) ==
    LET n == Len(stats)
        Pos(i) == 1 + Cardinality({j \in 1..n :
                         \/ CompareTotals(stats[j], stats[i]) < 0
                         \/ CompareTotals(stats[j], stats[i]) = 0 /\ j < i})
    IN [p \in 1..n |-> stats[CHOOSE i \in 1..n : Pos(i) = p]]

buildAssigneeStatsBlocks(metricsData) ==
    LET issues == metricsData.issues
        sortedAssignees == SortByTotal(AssigneeStats(issues, Len(issues)))
    IN IF TotalIssues(metricsData) = 0 THEN EmptyState
       ELSE [kind |-> "populated",
             sections |-> [k \in DOMAIN sortedAssignees |->
                              [name |-> sortedAssignees[k].name,
                               total |-> sortedAssignees[k].total,
                               statusDetails |-> SortByCount(sortedAssignees[k].statuses)]],
             fetchedCount |-> Len(issues)]

(***************************************************************************)
(* Specification: the two statistics builders applied to one search result *)
(***************************************************************************)
MaxIssues == 4
MaxStatuses == 8
MaxFetched == 40

StatusPool ==
    <<"To Do", "In Progress", "In Review", "Done", "Blocked", "Backlog", "QA",
      "Reopened", "Closed", "Deferred">>

\* an issue as the builders read it: status name and assignee display name
IssueValues == [status : {NoName, "To Do", "Done"}, assignee : {NoName, "ann"}]

\* n unassigned issues in n different statuses
Spread(n) == [i \in 1..n |-> [status |-> StatusPool[i], assignee |-> NoName]]

\* a page of n unassigned issues, the first c of them done, the others open
Split(c, n) ==
    [i \in 1..n |-> [status |-> IF i <= c THEN "Done" ELSE "To Do", assignee |-> NoName]]

\* n done issues of a team of two, some of them unassigned
Teams(n) == [1..n -> [status : {"Done"}, assignee : {NoName, "ann", "bob"}]]

IssueLists ==
    UNION {[1..n -> IssueValues] \cup Teams(n) : n \in 0..MaxIssues}
        \cup {Spread(n) : n \in 1..MaxStatuses}
        \cup {Split(c, n) : c \in 0..MaxFetched, n \in 1..MaxFetched}

\* response.data.total: absent or zero, or the size of the backlog
TotalValues == {0, 7}

MetricsData == [issues : IssueLists, total : TotalValues]

InitStats ==
    /\ run = [r \in Runs |-> [IdleRun EXCEPT !.id = r]]
    /\ surface = Content("none", 0, FALSE)
    /\ store = {}
    /\ modalOpen = FALSE
    /\ calc \in {[op |-> "getProjectMetrics", in |-> d, out |-> NoOut] : d \in MetricsData}

\* handleJiraReportCommand renders the search result
RenderProjectStats ==
    /\ calc.op = "getProjectMetrics"
    /\ calc' = [op |-> "buildProjectStatsBlocks", in |-> calc.in,
                out |-> buildProjectStatsBlocks(calc.in)]
    /\ UNCHANGED <<run, surface, store, modalOpen>>

\* handleJiraTeamCommand renders the search result
RenderAssigneeStats ==
    /\ calc.op = "getProjectMetrics"
    /\ calc' = [op |-> "buildAssigneeStatsBlocks", in |-> calc.in,
                out |-> buildAssigneeStatsBlocks(calc.in)]
    /\ UNCHANGED <<run, surface, store, modalOpen>>

NextStats == RenderProjectStats \/ RenderAssigneeStats

SpecStats == InitStats /\ [][NextStats]_vars

(***************************************************************************)
(* services/jiraService: the mention encoder of addComment                 *)
(***************************************************************************)
\* Comment texts are sequences of symbols: the opener "[~accountid:" taken
\* as one symbol (it cannot overlap itself), the closing bracket, a space
\* and an ordinary character.
Opener == "[~accountid:"
Closer == "]"
Space == " "
Symbols == {Opener, Closer, Space, "x"}

\* a null, undefined or empty mentionAccountId: all falsy
NoId == <<>>

\* fullText: the text, then a space unless it ends with one, then the token
FullText(text, mentionAccountId) ==
    IF mentionAccountId = NoId THEN text
    ELSE (IF Len(text) > 0 /\ text[Len(text)] = Space THEN text ELSE Append(text, Space))
             \o <<Opener>> \o mentionAccountId \o <<Closer>>

\* String.prototype.substring(a, b), indices counted from 0
Substring(str, a, b) == SubSeq(str, a + 1, b)

\* /\[~accountid:([^\]]+)\]/ matches at index i (counted from 0): the
\* opener, at least one symbol other than the closer, then the closer
MatchAt(str, i) ==
    /\ i + 2 <= Len(str)
    /\ str[i + 1] = Opener
    /\ str[i + 2] # Closer
    /\ \E q \in (i + 3)..Len(str) : str[q] = Closer

NoMatch == [index |-> -1, id |-> <<>>, lastIndex |-> 0]

\* variant: the id is matched greedily, up to the last closing bracket
Exec_greedy(str, lastIndex) ==
    LET starts == {i \in lastIndex..(Len(str) - 1) : MatchAt(str, i)}
    IN IF starts = {} THEN NoMatch
       ELSE LET i == CHOOSE k \in starts : \A l \in starts : k <= l
                q == CHOOSE k \in (i + 3)..Len(str) :
                         /\ str[k] = Closer
                         /\ \A l \in (k + 1)..Len(str) : str[l] # Closer
            IN [index |-> i, id |-> SubSeq(str, i + 2, q - 1), lastIndex |-> q]

\* mentionRegex.exec(fullText) with the regex's lastIndex: the leftmost match
Exec(str, lastIndex) ==
    LET starts == {i \in lastIndex..(Len(str) - 1) : MatchAt(str, i)}
    IN IF starts = {} THEN NoMatch
       ELSE LET i == CHOOSE k \in starts : \A l \in starts : k <= l
                q == CHOOSE k \in (i + 3)..Len(str) :
                         /\ str[k] = Closer
                         /\ \A l \in (i + 3)..(k - 1) : str[l] # Closer
            IN [index |-> i, id |-> SubSeq(str, i + 2, q - 1), lastIndex |-> q]

TextNode(str) == [type |-> "text", value |-> str]
MentionNode(id) == [type |-> "mention", value |-> id]

\* variant: the text before a match runs one symbol too far
TextBefore_inclusive(fullText, lastIndex, index) ==
    <<TextNode(Substring(fullText, lastIndex, index + 1))>>

\* the text node pushed before a match, if the match does not start at lastIndex
TextBefore(fullText, lastIndex, index) ==
    IF index > lastIndex THEN <<TextNode(Substring(fullText, lastIndex, index))>>
    ELSE <<>>

RECURSIVE Scan(_, _)
\* the nodes pushed by the while loop from lastIndex on, and by the `if` after it
Scan(fullText, lastIndex) ==
    LET match == Exec(fullText, lastIndex)
    IN IF match.index < 0
       THEN IF lastIndex < Len(fullText)
            THEN <<TextNode(Substring(fullText, lastIndex, Len(fullText)))>>
            ELSE <<>>
       ELSE TextBefore(fullText, lastIndex, match.index)
                \o <<MentionNode(match.id)>>
                \o Scan(fullText, match.lastIndex)

\* variant: the paragraph is posted as scanned, without the fallback node
paragraphContent_bare(text, mentionAccountId) ==
    Scan(FullText(text, mentionAccountId), 0)

\* paragraphContent as addComment posts it
paragraphContent(text, mentionAccountId) ==
    LET nodes == Scan(FullText(text, mentionAccountId), 0)
    IN IF Len(nodes) = 0 THEN <<TextNode(<<Space>>)>> ELSE nodes

RECURSIVE Inline(_, _)
\* the first n nodes written back as comment text: text nodes verbatim, a
\* mention node as the token [~accountid:ID]
Inline(nodes, n) ==
    IF n = 0 THEN <<>>
    ELSE Inline(nodes, n - 1) \o
             (IF nodes[n].type = "mention"
              THEN <<Opener>> \o nodes[n].value \o <<Closer>>
              ELSE nodes[n].value)

(***************************************************************************)
(* Specification: a comment is encoded, written back as text and encoded   *)
(* again                                                                   *)
(***************************************************************************)
MaxTextLen == 4
MaxIdLen == 2

\* all symbol sequences of at most n symbols
Strings(n) == UNION {[1..k -> Symbols] : k \in 0..n}

InitMention ==
    /\ run = [r \in Runs |-> [IdleRun EXCEPT !.id = r]]
    /\ surface = Content("none", 0, FALSE)
    /\ store = {}
    /\ modalOpen = FALSE
    /\ calc \in {[op |-> "comment", in |-> [text |-> t, id |-> a], out |-> NoOut] :
                     t \in Strings(MaxTextLen), a \in Strings(MaxIdLen)}

\* addComment(issueKey, text, mentionAccountId) builds its paragraph
EncodeComment ==
    /\ calc.op = "comment"
    /\ calc' = [op |-> "addComment", in |-> calc.in,
                out |-> [kind |-> "nodes",
                         nodes |-> paragraphContent(calc.in.text, calc.in.id)]]
    /\ UNCHANGED <<run, surface, store, modalOpen>>

\* the paragraph is written back as text and given to addComment without id
ReencodeComment ==
    /\ calc.op = "addComment"
    /\ LET first == calc.out.nodes
           text == Inline(first, Len(first))
       IN calc' = [op |-> "addComment again", in |-> calc.in,
                   out |-> [kind |-> "nodes", first |-> first, text |-> text,
                            nodes |-> paragraphContent(text, NoId)]]
    /\ UNCHANGED <<run, surface, store, modalOpen>>

NextMention == EncodeComment \/ ReencodeComment

SpecMention == InitMention /\ [][NextMention]_vars

(***************************************************************************)
(* utils/slackBlocks: buildUserIssuesBlocks                                *)
(***************************************************************************)
\* one field cell of a section: a column header, or the key or status of an issue
Cell(col, key, text) == [col |-> col, key |-> key, text |-> text]

\* variant: the first section starts without the two column headers
HeaderFields_none == <<>>

\* currentFields before the loop: the two column headers
HeaderFields == <<Cell("head", 0, <<"*Key & Summary*">>), Cell("head", 0, <<"*Status*">>)>>

\* texts are sequences of characters; the one-character ellipsis
Ellipsis == "ellipsis"

NoSummary == <<>>

\* variant: the ellipsis is appended to the first n characters
truncate_whole(str, n) ==
    IF Len(str) > n THEN Append(SubSeq(str, 1, n), Ellipsis) ELSE str

\* (str, n) => (str.length > n) ? str.slice(0, n - 1) + '...' : str
truncate(str, n) ==
    IF Len(str) > n THEN Append(SubSeq(str, 1, n - 1), Ellipsis) ELSE str

\* issue.fields?.summary || 'No Summary'
SummaryOf(issue) ==
    IF issue.summary = NoSummary
    THEN <<"N", "o", " ", "S", "u", "m", "m", "a", "r", "y">>
    ELSE issue.summary

\* variant: the buffer is flushed only when a sixth pair has been pushed
BufferFull_late(currentFields) == Len(currentFields) >= 12

\* currentFields.length >= 10
BufferFull(currentFields) == Len(currentFields) >= 10

RECURSIVE FieldsAfter(_, _)
\* the flushed sections and the buffer after the first k issues
FieldsAfter(issues, k) ==
    IF k = 0 THEN [sections |-> <<>>, currentFields |-> HeaderFields]
    ELSE LET prev == FieldsAfter(issues, k - 1)
             issue == issues[k]
             pushed == prev.currentFields
                           \o <<Cell("key", issue.key, truncate(SummaryOf(issue), 60)),
                                Cell("status", issue.key, <<StatusName(issue)>>)>>
         IN IF BufferFull(pushed) \/ k = Len(issues)
            THEN [sections |-> Append(prev.sections, pushed), currentFields |-> <<>>]
            ELSE [sections |-> prev.sections, currentFields |-> pushed]

buildUserIssuesBlocks(issuesData) ==
    LET issues == issuesData.issues
    IN IF Len(issues) = 0 THEN EmptyState
       ELSE [kind |-> "populated", count |-> Len(issues),
             sections |-> FieldsAfter(issues, Len(issues)).sections]

(***************************************************************************)
(* utils/slackBlocks: buildIssueMessageBlocks, and the handlers' parse of  *)
(* the values it embeds                                                    *)
(***************************************************************************)
\* JSON.parse(text) destructured as { issueKey, [name] }: a property that
\* is not in the text reads undefined
ParseAs(text, name) ==
    [parse |-> "object",
     issueKey |-> IF text.issueKey = <<>> THEN UndefinedKey ELSE text.issueKey[1],
     target |-> IF text.name = name /\ text.value # <<>> THEN text.value[1]
                ELSE Undefined]

\* variant: the list is not cut
Take_all(list, n) == list

\* Array.prototype.slice(0, n)
Take(list, n) == SubSeq(list, 1, IF Len(list) < n THEN Len(list) ELSE n)

\* variant: the button embeds the transition id under the key "id"
TransitionButton_idKey(issueKey, t) ==
    Control(<<"transition_", t.id>>, t.name, Stringify(issueKey, "id", t.id))

\* the map callback of transitionButtons
TransitionButton(issueKey, t) ==
    Control(<<"transition_", t.id>>, t.name, Stringify(issueKey, "transitionId", t.id))

\* the map callback of userOptions
UserOption(issueKey, u) ==
    Control(<<"assign_issue">>, u.displayName, Stringify(issueKey, "accountId", u.accountId))

\* the option put on top by userOptions.unshift
UnassignedOption(issueKey) ==
    Control(<<"assign_issue">>, "Unassigned", Stringify(issueKey, "accountId", Null))

\* variant: the transitions block is pushed whenever the list is given
TransitionBlocks_always(issueKey, transitions) ==
    IF transitions.present
    THEN <<Block("actions", <<>>,
                 [k \in DOMAIN Take(transitions.list, 4) |->
                     TransitionButton(issueKey, transitions.list[k])])>>
    ELSE <<>>

\* if (transitions && transitions.length > 0) blocks.push({type: 'actions', ...})
TransitionBlocks(issueKey, transitions) ==
    IF transitions.present /\ Len(transitions.list) > 0
    THEN <<Block("actions", <<>>,
                 [k \in DOMAIN Take(transitions.list, 4) |->
                     TransitionButton(issueKey, transitions.list[k])])>>
    ELSE <<>>

\* if (assignableUsers && assignableUsers.length > 0) blocks.push({type: 'section', ...})
ReassignBlocks(issueKey, assignableUsers) ==
    IF assignableUsers.present /\ Len(assignableUsers.list) > 0
    THEN <<Block("section", <<"Re-assign Issue:">>,
                 <<UnassignedOption(issueKey)>> \o
                 [k \in DOMAIN Take(assignableUsers.list, 99) |->
                     UserOption(issueKey, assignableUsers.list[k])])>>
    ELSE <<>>

\* issue.fields?.status?.name || 'Unknown Status'
CardStatusName(issue) == IF issue.status = NoName THEN "Unknown Status" ELSE issue.status

buildIssueMessageBlocks(issue, issueKey, transitions, assignableUsers) ==
    <<Block("header", <<"title">>, <<>>),
      Block("section", <<CardStatusName(issue), AssigneeName(issue)>>, <<>>),
      Block("context", <<"description">>, <<>>),
      Block("divider", <<>>, <<>>),
      Block("actions", <<>>,
            <<Control(<<"view_jira_issue">>, "View in Jira", Stringify(UndefinedKey, "url", Undefined)),
              Control(<<"open_comment_modal">>, "Add Comment",
                      Stringify(issueKey, "plain", Undefined))>>)>>
        \o ReassignBlocks(issueKey, assignableUsers)
        \o TransitionBlocks(issueKey, transitions)

(***************************************************************************)
(* Specification: an issue card or a task list is built, and a control of  *)
(* the card is actuated                                                    *)
(***************************************************************************)
MaxTasks == 23
MaxTransitions == 5
MaxUsers == 2
MaxSummary == 62

TransitionPool ==
    <<[id |-> "11", name |-> "Start"], [id |-> "21", name |-> "Review"],
      [id |-> "31", name |-> "Done"], [id |-> "41", name |-> "Reopen"],
      [id |-> "51", name |-> "Block"], [id |-> "61", name |-> "Defer"]>>

UserPool ==
    <<[accountId |-> "acctX", displayName |-> "ann"],
      [accountId |-> "acctY", displayName |-> "bob"],
      [accountId |-> "acctZ", displayName |-> "cy"]>>

\* a list the tracker did not send, one of 0..n entries, or one whose only
\* entry has no id
ListInputs(pool, n, odd) ==
    {[present |-> FALSE, list |-> <<>>], [present |-> TRUE, list |-> <<odd>>]}
        \cup {[present |-> TRUE, list |-> SubSeq(pool, 1, k)] : k \in 0..n}

CardInputs ==
    [issue : IssueValues, issueKey : {KeyProj5, UndefinedKey},
     transitions : ListInputs(TransitionPool, MaxTransitions, [id |-> Undefined, name |-> "Odd"]),
     assignableUsers : ListInputs(UserPool, MaxUsers,
                                  [accountId |-> Undefined, displayName |-> "dee"])]

\* a summary of n characters
Summary(n) == [i \in 1..n |-> <<"a", "b", "c">>[(i % 3) + 1]]

\* n issues with keys 1..n, the m-th without a status name, and single
\* issues with a summary of every length up to MaxSummary (none for 0)
TaskInputs ==
    {[issues |-> [i \in 1..n |-> [key |-> i, status |-> IF i = m THEN NoName ELSE "Done",
                                  summary |-> Summary(i)]]] :
        n \in 0..MaxTasks, m \in 0..1}
      \cup {[issues |-> <<[key |-> 1, status |-> "Done", summary |-> Summary(n)]>>] :
                n \in 0..MaxSummary}

InitBlocks ==
    /\ run = [r \in Runs |-> [IdleRun EXCEPT !.id = r]]
    /\ surface = Content("none", 0, FALSE)
    /\ store = {}
    /\ modalOpen = FALSE
    /\ calc \in {[op |-> "getIssue", in |-> d, out |-> NoOut] : d \in CardInputs}
                 \cup {[op |-> "getUserIssues", in |-> d, out |-> NoOut] : d \in TaskInputs}

\* handleJiraCommand (and the re-render of the two dispatch handlers) builds the card
RenderIssueCard ==
    /\ calc.op = "getIssue"
    /\ calc' = [op |-> "buildIssueMessageBlocks", in |-> calc.in,
                out |-> [kind |-> "card",
                         blocks |-> buildIssueMessageBlocks(calc.in.issue, calc.in.issueKey,
                                        calc.in.transitions, calc.in.assignableUsers)]]
    /\ UNCHANGED <<run, surface, store, modalOpen>>

\* handleJiraTasksCommand builds the task list
RenderUserIssues ==
    /\ calc.op = "getUserIssues"
    /\ calc' = [op |-> "buildUserIssuesBlocks", in |-> calc.in,
                out |-> buildUserIssuesBlocks(calc.in)]
    /\ UNCHANGED <<run, surface, store, modalOpen>>

\* app.action(/^transition_/, ...) and app.action('assign_issue', ...)
ListenerOf(actionId) ==
    CASE actionId[1] = "transition_" -> "handleTransitionAction"
      [] actionId[1] = "assign_issue" -> "handleAssignIssueAction"
      [] OTHER -> "none"

\* the run record after the handler parsed the value of the actuated control
ParsedBy(h, value) ==
    LET ev == [NoEv EXCEPT !.user = "U1",
                   !.value = ParseAs(value, IF h = "handleTransitionAction"
                                            THEN "transitionId" ELSE "accountId")]
        rr == [IdleRun EXCEPT !.handler = h, !.ev = ev]
    IN IF h = "handleTransitionAction" THEN TransitionParsed(rr) ELSE AssignParsed(rr)

\* a transition button or a reassign option of the card is actuated and its
\* value is parsed by the handler registered for its action_id
ActuateControl ==
    /\ calc.op = "buildIssueMessageBlocks"
    /\ \E b \in DOMAIN calc.out.blocks : \E c \in DOMAIN calc.out.blocks[b].controls :
          LET control == calc.out.blocks[b].controls[c]
              h == ListenerOf(control.action_id)
              rr == ParsedBy(h, control.value)
          IN /\ h # "none"
             /\ calc' = [op |-> "dispatch", in |-> calc.in,
                         out |-> [kind |-> "parsed", handler |-> h, index |-> c,
                                  pc |-> rr.pc, issueKey |-> rr.issueKey,
                                  target |-> rr.target]]
    /\ UNCHANGED <<run, surface, store, modalOpen>>

NextBlocks == RenderIssueCard \/ RenderUserIssues \/ ActuateControl

SpecBlocks == InitBlocks /\ [][NextBlocks]_vars

(***************************************************************************)
(* Specification: interactions are served one after another                *)
(***************************************************************************)
SerialRuns == {1}

Next ==
    \E r \in SerialRuns :
        \/ ReceiveCommand(r)
        \/ ReceiveAction(r)
        \/ ReceiveView(r)
        \/ handleJiraCommand(r)
        \/ handleTransitionAction(r)
        \/ handleAssignIssueAction(r)
        \/ handleOpenCommentModal(r)
        \/ handleCommentSubmit(r)
        \/ MetricsCommand(r)
        \/ handleJiraProjectsCommand(r)
        \/ handleJiraMapCommand(r)
        \/ handleJiraTasksCommand(r)

Spec == Init /\ [][Next]_vars

(***************************************************************************)
(* Specification: as Spec, and every awaited call eventually settles: a    *)
(* run suspended at an await is resumed with the call's result or error    *)
(***************************************************************************)
\* the continuation of run r after the await it is suspended at
Resume(r) ==
    \/ handleJiraCommand(r)
    \/ handleTransitionAction(r)
    \/ handleAssignIssueAction(r)
    \/ handleOpenCommentModal(r)
    \/ handleCommentSubmit(r)
    \/ MetricsCommand(r)
    \/ handleJiraProjectsCommand(r)
    \/ handleJiraMapCommand(r)
    \/ handleJiraTasksCommand(r)

SpecSettling == Spec /\ \A r \in SerialRuns : WF_vars(Resume(r))

(***************************************************************************)
(* Specification: two /jira-map commands of one user are served            *)
(* concurrently; a run is suspended at every await and the other may step  *)
(***************************************************************************)
\* app.command('/jira-map', ...): each of the two runs is started once
ReceiveLink(r) ==
    /\ run[r].pc = "idle"
    /\ \E t \in CommandTexts("handleJiraMapCommand") : \E u \in ChatIds :
          Begin(r, "handleJiraMapCommand", [NoEv EXCEPT !.text = t, !.user = u])
    /\ UNCHANGED <<surface, store, modalOpen, calc>>

NextLinkRace ==
    \E r \in Runs :
        \/ ReceiveLink(r)
        \/ handleJiraMapCommand(r)

SpecLinkRace == Init /\ [][NextLinkRace]_vars

(***************************************************************************)
(* Specification: two controls of one rendered issue card are actuated     *)
(* nearly at once; the two runs interleave at their awaits                 *)
(***************************************************************************)
\* the card of issue PROJ-5 is on the shared surface, with its reassign menu
InitDispatchRace ==
    /\ run = [r \in Runs |-> [IdleRun EXCEPT !.id = r]]
    /\ surface = Content("issueDoc", 0, TRUE)
    /\ store = {}
    /\ modalOpen = FALSE
    /\ calc = NoCalc

\* app.action(...): each of the two runs is started once, by a well-formed
\* transition click or reassign selection on the same issue
ReceiveClick(r) ==
    /\ run[r].pc = "idle"
    /\ \E u \in ChatIds :
          \/ Begin(r, "handleTransitionAction",
                   [NoEv EXCEPT !.user = u,
                       !.value = [parse |-> "object", issueKey |-> KeyProj5, target |-> "31"]])
          \/ Begin(r, "handleAssignIssueAction",
                   [NoEv EXCEPT !.user = u,
                       !.value = [parse |-> "object", issueKey |-> KeyProj5, target |-> "acctX"]])
    /\ UNCHANGED <<surface, store, modalOpen, calc>>

NextDispatchRace ==
    \E r \in Runs :
        \/ ReceiveClick(r)
        \/ handleTransitionAction(r)
        \/ handleAssignIssueAction(r)

SpecDispatchRace == InitDispatchRace /\ [][NextDispatchRace]_vars

(***************************************************************************)
(* Reading a run's log                                                     *)
(***************************************************************************)
TrackerCalls ==
    {"getIssue", "getTransitions", "transitionIssue", "assignIssue", "addComment",
     "getProjectUsers", "getProjectMetrics", "getProjects", "searchUser",
     "getUserIssues"}

StoreCalls == {"getUserMapping", "saveUserMapping"}

DispatchHandlers == {"handleTransitionAction", "handleAssignIssueAction"}

\* the call that is the remote mutation of a handler
MutationCall(h) ==
    CASE h = "handleTransitionAction" -> "transitionIssue"
      [] h = "handleAssignIssueAction" -> "assignIssue"
      [] h = "handleCommentSubmit" -> "addComment"
      [] OTHER -> "none"

LogOf(r) == run[r].log

Idx(r, names) == {i \in DOMAIN LogOf(r) : LogOf(r)[i].call \in names}

OkIdx(r, names) == {i \in Idx(r, names) : LogOf(r)[i].o = "ok"}

FailIdx(r, names) == {i \in Idx(r, names) : LogOf(r)[i].o # "ok"}

RespondIdx(r) == Idx(r, {"respond"})

Done(r) == run[r].pc = "done"

AckOk(r) == OkIdx(r, {"ack"}) # {}

\* responds of the run that replace the surface in place
ReplaceIdx(r) == {i \in RespondIdx(r) : ReplacesInPlace(LogOf(r)[i].arg)}

PlaceholderIdx(r) ==
    {i \in RespondIdx(r) : LogOf(r)[i].arg.content.kind = "placeholder"}

\* actor-only responds carrying a failure notice
ErrorKinds == {"error", "notfound", "unauthorized"}

ErrorIdx(r) ==
    {i \in RespondIdx(r) : /\ LogOf(r)[i].arg.content.kind \in ErrorKinds
                           /\ ActorOnly(LogOf(r)[i].arg)}

MutationIdx(r) == Idx(r, {MutationCall(run[r].handler)})

MutationFailed(r) == FailIdx(r, {MutationCall(run[r].handler)}) # {}

MutationOk(r) == OkIdx(r, {MutationCall(run[r].handler)}) # {}

(***************************************************************************)
(* C1  In every handler the acknowledge call is the first external call of *)
(* the run: every respond, modal-open, tracker or identity-store call of a *)
(* run is preceded in that run by its ack.                                 *)
(***************************************************************************)
C1_AckFirst ==
    \A r \in Runs :
        \A i \in DOMAIN LogOf(r) :
            LogOf(r)[i].call = "ack" <=> i = 1

C1_Witness ==
    \E r \in Runs :
        /\ run[r].handler = "handleTransitionAction"
        /\ Done(r)
        /\ ReplaceIdx(r) # {}
        /\ Idx(r, TrackerCalls) # {}
        /\ Idx(r, StoreCalls) # {}

(***************************************************************************)
(* C2  (as stated) Every acknowledged transition, reassignment or          *)
(* comment-submission run that passes validation invokes its remote        *)
(* mutation exactly once: never zero times, never a second time.           *)
(***************************************************************************)
\* the event carries everything the handler reads: a payload that parses
\* and names the issue and the mutation, and the fields of the event body
Validated(r) ==
    /\ run[r].ev.shape = "complete"
    /\ run[r].handler \in DispatchHandlers =>
           /\ run[r].ev.value.parse = "object"
           /\ run[r].ev.value.issueKey # UndefinedKey
           /\ run[r].ev.value.target # Undefined
    /\ run[r].ev.user \in ChatIds

C2_Original ==
    \A r \in Runs :
        (/\ run[r].handler \in DispatchHandlers \cup {"handleCommentSubmit"}
         /\ Done(r)
         /\ AckOk(r)
         /\ Validated(r))
        => Cardinality(MutationIdx(r)) = 1

\* the calls a run makes before its mutation
BeforeMutationOk(r) ==
    IF run[r].handler = "handleCommentSubmit"
    THEN OkIdx(r, {"getUserMapping"}) # {}
    ELSE \E i \in PlaceholderIdx(r) : LogOf(r)[i].o = "ok"

(***************************************************************************)
(* C2  (amended) A transition, reassignment or comment-submission run      *)
(* invokes its remote mutation at most once, whatever later steps fail,    *)
(* and exactly once when the calls preceding it (ack, then the placeholder *)
(* respond, or the identity lookup of a comment submission) succeeded; a   *)
(* run in which one of those fails invokes it zero times.                  *)
(***************************************************************************)
C2_MutationOnce ==
    \A r \in Runs :
        run[r].handler \in DispatchHandlers \cup {"handleCommentSubmit"}
        => /\ Cardinality(MutationIdx(r)) <= 1
           /\ MutationIdx(r) # {} => BeforeMutationOk(r)
           /\ (Done(r) /\ BeforeMutationOk(r)) => Cardinality(MutationIdx(r)) = 1

C2_Witness ==
    \E r \in Runs :
        /\ run[r].handler \in DispatchHandlers
        /\ Done(r)
        /\ Cardinality(MutationIdx(r)) = 1
        /\ FailIdx(r, {"getIssue", "getTransitions", "addComment"}) # {}

(***************************************************************************)
(* C3  When the correlation value of a transition or reassign control does *)
(* not parse, the acknowledged run ends rejected: its only respond is one  *)
(* actor-only error notice, no respond replaces the surface in place, and  *)
(* no tracker or identity-store call is made.                              *)
(***************************************************************************)
Unparsable(r) ==
    /\ run[r].handler \in DispatchHandlers
    /\ run[r].ev.shape = "complete"
    /\ run[r].ev.value.parse = "throws"

LacksField(r) ==
    /\ run[r].handler \in DispatchHandlers
    /\ run[r].ev.shape = "complete"
    /\ run[r].ev.value.parse = "object"
    /\ \/ run[r].ev.value.issueKey = UndefinedKey
       \/ run[r].handler = "handleTransitionAction" /\ run[r].ev.value.target = Undefined

C4_Claim ==
    \A r \in Runs :
        LacksField(r) => PlaceholderIdx(r) = {} /\ MutationIdx(r) = {}

(***************************************************************************)
(* C5  When the remote mutation of a transition or reassignment run fails, *)
(* that run makes no identity lookup, no audit comment write, no refetch   *)
(* of the issue or its transitions, and no replace-in-place respond that   *)
(* carries a rebuilt issue document.                                       *)
(***************************************************************************)
C5_FailedMutationStops ==
    \A r \in Runs :
        (run[r].handler \in DispatchHandlers /\ MutationFailed(r)) =>
            /\ Idx(r, {"getUserMapping", "addComment", "getIssue", "getTransitions",
                       "getProjectUsers"}) = {}
            /\ \A i \in ReplaceIdx(r) : LogOf(r)[i].arg.content.kind # "issueDoc"

C5_Witness ==
    \E r \in Runs :
        /\ run[r].handler \in DispatchHandlers
        /\ MutationFailed(r)
        /\ Done(r)
        /\ ErrorIdx(r) # {}

(***************************************************************************)
(* C6  When the remote mutation of a transition or reassignment run fails  *)
(* (the event itself being well formed and the error notice delivered),    *)
(* the placeholder is replaced by the error notice: at the end of the run  *)
(* the shared surface does not show the placeholder.                       *)
(***************************************************************************)
C6_Claim ==
    \A r \in Runs :
        (/\ run[r].handler \in DispatchHandlers /\ Validated(r)
         /\ MutationFailed(r) /\ Done(r)
         /\ \E i \in ErrorIdx(r) : LogOf(r)[i].o = "ok")
        => surface.kind # "placeholder"

(***************************************************************************)
(* C7  In the transition and in the reassignment run (of a well-formed     *)
(* event), once the mutation has succeeded, a failed identity lookup or    *)
(* audit comment write is swallowed: the run goes on to refetch the issue  *)
(* and no error notice is sent because of it.                              *)
(***************************************************************************)
AuditFailed(r) == FailIdx(r, {"getUserMapping", "addComment"}) # {}

C7_Claim ==
    \A r \in Runs :
        (/\ run[r].handler \in DispatchHandlers /\ Validated(r)
         /\ MutationOk(r) /\ AuditFailed(r) /\ Done(r))
        => /\ Idx(r, {"getIssue"}) # {}
           /\ FailIdx(r, {"getIssue", "getTransitions", "respond"}) = {}
                 => ErrorIdx(r) = {}

(***************************************************************************)
(* C8  A transition whose tracker mutation answers 404 yields an           *)
(* actor-only message of the NotFound class, distinct from the message for *)
(* 401 (Unauthorized) and for any other failure (Transient).               *)
(***************************************************************************)
C8_Claim ==
    \A r \in Runs :
        (run[r].handler = "handleTransitionAction" /\ Validated(r)) =>
            \A i \in FailIdx(r, {"transitionIssue"}) :
                \A j \in ErrorIdx(r) :
                    LogOf(r)[j].arg.content.kind = JiraErrorKind(LogOf(r)[i].o)

(***************************************************************************)
(* C9  Whatever external call fails and whatever field is missing from the *)
(* event body, the failure is caught inside the handler and never          *)
(* propagates out of it.                                                   *)
(***************************************************************************)
C9_Claim == \A r \in Runs : ~run[r].escaped

(***************************************************************************)
(* C10  Every run that ends in a failure sends the actor a short           *)
(* actor-scoped message, in every handler, a failed modal-open and a       *)
(* failed lookup or comment write of a comment submission included.        *)
(***************************************************************************)
C10_Claim ==
    \A r \in Runs :
        (Done(r) /\ run[r].failed /\ ~run[r].escaped) => ErrorIdx(r) # {}


(***************************************************************************)
(* C11  Every message sent on an error or rejection path is actor-only: no *)
(* channel-visible respond carries an error, usage or not-found notice; a  *)
(* respond posted to the channel carries a rendered document, and a        *)
(* respond that replaces the card in place carries the in-progress         *)
(* placeholder or the rebuilt issue document.                              *)
(***************************************************************************)
NoticeKinds == ErrorKinds \cup {"usage", "unlinked"}

AuditHandlers == DispatchHandlers \cup {"handleCommentSubmit"}

\* the identity lookup of the run answered, and found no usable mapping
Unmapped(r) ==
    /\ OkIdx(r, {"getUserMapping"}) # {}
    /\ ~(run[r].userMap.present /\ run[r].userMap.jira_account_id # Null)

\* the call a run makes once its comment is written
AfterAudit(h) ==
    IF h = "handleCommentSubmit" THEN "chat.postMessage" ELSE "getIssue"

C12_UnmappedStillAudits ==
    \A r \in Runs :
        (Done(r) /\ run[r].handler \in AuditHandlers /\ Unmapped(r)) =>
            /\ Cardinality(Idx(r, {"addComment"})) = 1
            /\ \A i \in Idx(r, {"addComment"}) :
                  /\ LogOf(r)[i].arg.actor = <<"plain", run[r].ev.user>>
                  /\ i - 1 \in OkIdx(r, {"getUserMapping"})
                  /\ LogOf(r)[i].o = "ok" =>
                        /\ i + 1 \in DOMAIN LogOf(r)
                        /\ LogOf(r)[i + 1].call = AfterAudit(run[r].handler)

\* a reassignment by an actor whose row has no account id ran to its end
C12_Witness ==
    \E r \in Runs :
        /\ Done(r) /\ run[r].handler = "handleAssignIssueAction" /\ Unmapped(r)
        /\ run[r].userMap.present
        /\ OkIdx(r, {"addComment"}) # {}
        /\ ~run[r].failed

(***************************************************************************)
(* C13  The identity store never holds two mappings for one chat user id,  *)
(* and once a /jira-map run has stored its link, resolving that chat user  *)
(* id returns the account and email of this latest link, whatever mapping  *)
(* the user had before.                                                    *)
(***************************************************************************)
\* the successful upserts of a run
LinkIdx(r) == OkIdx(r, {"saveUserMapping"})

C13_RelinkReplaces ==
    /\ \A e1, e2 \in store : e1.slack_id = e2.slack_id => e1 = e2
    /\ \A r \in Runs :
          (run[r].handler = "handleJiraMapCommand" /\ run[r].pc \in {"linked", "done"}) =>
              \A i \in LinkIdx(r) :
                  LET a == LogOf(r)[i].arg
                  IN /\ GetRow(a.slackId) = a.row
                     /\ Cardinality({e \in store : e.slack_id = a.slackId}) = 1

\* link(A, X) was followed by link(A, Y): the second upsert found X's row
C13_Witness ==
    \E r \in Runs :
        /\ Done(r) /\ run[r].handler = "handleJiraMapCommand"
        /\ \E i \in LinkIdx(r) :
              LET a == LogOf(r)[i].arg
              IN /\ a.old.present /\ a.old.jira_account_id = "acctX"
                 /\ a.row.jira_account_id = "acctY"
                 /\ a.old.jira_email # a.row.jira_email

(***************************************************************************)
(* C14  When two /jira-map commands of the same chat user with different   *)
(* emails run concurrently and both store their link, then under every     *)
(* interleaving of their search and upsert steps the store ends with       *)
(* exactly one mapping for the user, and it carries the email and account  *)
(* of the command whose upsert was executed second, whichever command      *)
(* arrived first.                                                          *)
(***************************************************************************)
\* shared write i of run r was made before shared write j of run q
Before(r, i, q, j) == LogOf(q)[j].at >= SharedCount(LogOf(r), i)

\* run r committed its upsert after the other run q committed its own
CommittedSecond(r, q) ==
    \E i \in LinkIdx(r) : \E j \in LinkIdx(q) : Before(q, j, r, i)

BothLinked(r, q) ==
    /\ r # q /\ Done(r) /\ Done(q)
    /\ run[r].handler = "handleJiraMapCommand" /\ run[q].handler = "handleJiraMapCommand"
    /\ run[r].ev.user = run[q].ev.user
    /\ Trim(run[r].ev.text) # Trim(run[q].ev.text)
    /\ LinkIdx(r) # {} /\ LinkIdx(q) # {}

C14_SecondCommitWins ==
    \A r, q \in Runs :
        (BothLinked(r, q) /\ CommittedSecond(r, q)) =>
            LET email == Trim(run[r].ev.text)
            IN /\ ~CommittedSecond(q, r)
               /\ Cardinality({e \in store : e.slack_id = run[r].ev.user}) = 1
               /\ GetRow(run[r].ev.user) = Row(Directory(email), email)

\* the command that arrived first committed second, and its link is the one kept
C14_Witness ==
    \E r, q \in Runs :
        /\ BothLinked(r, q) /\ CommittedSecond(r, q)
        /\ run[r].arrival = 1 /\ run[q].arrival = 2
        /\ Directory(Trim(run[r].ev.text)) # Directory(Trim(run[q].ev.text))
        /\ GetRow(run[r].ev.user).jira_account_id = Directory(Trim(run[r].ev.text))

(***************************************************************************)
(* C15  When two transition or reassignment runs on the same issue are     *)
(* interleaved and both reach their re-render, the shared surface ends     *)
(* with the document of the run whose re-render respond was executed last, *)
(* whichever of the two mutations was applied to the tracker last.         *)
(***************************************************************************)
\* the re-render responds of a run that reached the surface
RenderIdx(r) ==
    {i \in ReplaceIdx(r) : /\ LogOf(r)[i].arg.content.kind = "issueDoc"
                           /\ LogOf(r)[i].o = "ok"}

BothRendered(r, q) ==
    /\ r # q /\ Done(r) /\ Done(q)
    /\ run[r].handler \in DispatchHandlers /\ run[q].handler \in DispatchHandlers
    /\ run[r].issueKey = run[q].issueKey
    /\ RenderIdx(r) # {} /\ RenderIdx(q) # {}

\* run r executed its re-render after run q executed its own
RenderedLast(r, q) ==
    \E i \in RenderIdx(r) : \E j \in RenderIdx(q) : Before(q, j, r, i)

C15_LastRenderWins ==
    \A r, q \in Runs :
        (BothRendered(r, q) /\ RenderedLast(r, q)) =>
            /\ ~RenderedLast(q, r)
            /\ \A i \in RenderIdx(r) : surface = LogOf(r)[i].arg.content
            /\ surface.by = r

\* r mutated the issue first and rendered last: the surface shows r's
\* document although q's mutation was the last one applied
C15_Witness ==
    \E r, q \in Runs :
        /\ BothRendered(r, q) /\ RenderedLast(r, q)
        /\ \E i \in MutationIdx(r) : \E j \in MutationIdx(q) :
              /\ LogOf(r)[i].o = "ok" /\ LogOf(q)[j].o = "ok"
              /\ Before(r, i, q, j)
              /\ ~Before(q, j, r, i)
        /\ run[r].handler # run[q].handler
        /\ surface.by = r

(***************************************************************************)
(* Reading a builder's call                                                *)
(***************************************************************************)
ProjectStatsBuilt == calc.op = "buildProjectStatsBlocks"

AssigneeStatsBuilt == calc.op = "buildAssigneeStatsBlocks"

\* the position of the first issue with the given status name
FirstSeen(issues, name) ==
    CHOOSE i \in DOMAIN issues :
        /\ StatusName(issues[i]) = name
        /\ \A j \in 1..(i - 1) : StatusName(issues[j]) # name

RECURSIVE SumTotals(_, _)
SumTotals(sections, n) ==
    IF n = 0 THEN 0 ELSE SumTotals(sections, n - 1) + sections[n].total

RECURSIVE SumCounts(_, _)
SumCounts(entries, n) ==
    IF n = 0 THEN 0 ELSE SumCounts(entries, n - 1) + entries[n][2]

(***************************************************************************)
(* C16  For every non-empty issue list, whatever its distribution over     *)
(* statuses, the progress bar built by buildProjectStatsBlocks consists of *)
(* exactly 20 units.                                                       *)
(***************************************************************************)
C16_Claim ==
    (ProjectStatsBuilt /\ calc.in.issues # <<>>) =>
        Len(calc.out.progressBar) = barLength

C18_GroupsCoverIssues ==
    (AssigneeStatsBuilt /\ calc.in.issues # <<>>) =>
        LET issues == calc.in.issues
            sections == calc.out.sections
        IN /\ calc.out.kind = "populated"
           /\ SumTotals(sections, Len(sections)) = Len(issues)
           /\ \A i \in DOMAIN issues :
                 \E k \in DOMAIN sections :
                     sections[k].name = (IF issues[i].assignee = NoName THEN "Unassigned"
                                         ELSE issues[i].assignee)
           /\ \A k \in DOMAIN sections :
                 /\ sections[k].total =
                        SumCounts(sections[k].statusDetails, Len(sections[k].statusDetails))
                 /\ sections[k].name = "Unassigned" =>
                        sections[k].total =
                            Cardinality({i \in DOMAIN issues : issues[i].assignee = NoName})

\* a list with assigned and unassigned issues, the unassigned in two statuses
C18_Witness ==
    /\ AssigneeStatsBuilt /\ calc.out.kind = "populated"
    /\ \E k, l \in DOMAIN calc.out.sections :
          /\ calc.out.sections[k].name = "Unassigned"
          /\ Len(calc.out.sections[k].statusDetails) = 2
          /\ calc.out.sections[k].total = 3
          /\ calc.out.sections[l].name = "ann"

(***************************************************************************)
(* C19  When the issue list is empty, buildProjectStatsBlocks and          *)
(* buildAssigneeStatsBlocks return the empty-state document, whatever      *)
(* total the search result reports.                                        *)
(***************************************************************************)
C19_Claim ==
    ((ProjectStatsBuilt \/ AssigneeStatsBuilt) /\ calc.in.issues = <<>>) =>
        calc.out = EmptyState

(***************************************************************************)
(* C20  Mention encoding is idempotent: for every text and every optional  *)
(* account id, writing the encoded nodes back as text (text nodes          *)
(* verbatim, mention nodes as their inline token) and encoding that text   *)
(* without an id yields the same node sequence.                            *)
(***************************************************************************)
Reencoded == calc.op = "addComment again"

C20_EncodeIdempotent ==
    Reencoded => calc.out.nodes = calc.out.first

\* a text with a token of its own and an id to append: text and mention
\* nodes alternate, and the written-back text differs from the input text
C20_Witness ==
    /\ Reencoded
    /\ calc.in.id # NoId
    /\ Len(calc.out.first) = 4
    /\ calc.out.first[2].type = "mention"
    /\ calc.out.first[4].type = "mention"
    /\ calc.out.first[2].value # calc.out.first[4].value
    /\ calc.out.text # calc.in.text

(***************************************************************************)
(* C21  The paragraph built by addComment is never empty: for every text   *)
(* and optional account id it has at least one node, and for the empty     *)
(* text without an id it is exactly one text node holding one space.       *)
(***************************************************************************)
Encoded == calc.op = "addComment"

C21_NeverEmpty ==
    Encoded =>
        /\ Len(calc.out.nodes) >= 1
        /\ (calc.in.text = <<>> /\ calc.in.id = NoId) =>
               calc.out.nodes = <<[type |-> "text", value |-> <<" ">>]>>

\* the empty text without an id has been encoded
C21_Witness ==
    /\ Encoded
    /\ calc.in.text = <<>> /\ calc.in.id = NoId
    /\ Len(calc.out.nodes) = 1

(***************************************************************************)
(* Reading a built task list                                               *)
(***************************************************************************)
TaskListBuilt == calc.op = "buildUserIssuesBlocks" /\ calc.out.kind = "populated"

\* the number of key/status pairs of a field group
PairsIn(group) == Cardinality({p \in DOMAIN group : group[p].col = "key"})

RECURSIVE IssueCellsOf(_, _)
\* the cells of the first n groups in order, the column headers left out
IssueCellsOf(sections, n) ==
    IF n = 0 THEN <<>>
    ELSE IssueCellsOf(sections, n - 1) \o SelectSeq(sections[n], LAMBDA c : c.col # "head")

(***************************************************************************)
(* C22 (as stated)  A task list of n >= 1 issues is laid out in ceil(n/5)  *)
(* field groups, every group but the last holding 5 key/status pairs.      *)
(***************************************************************************)
C22_Original ==
    TaskListBuilt =>
        LET n == calc.out.count
            groups == calc.out.sections
        IN /\ Len(groups) = (n + 4) \div 5
           /\ \A g \in 1..(Len(groups) - 1) : PairsIn(groups[g]) = 5

(***************************************************************************)
(* C22 (amended)  A task list of n >= 1 issues is laid out in              *)
(* ceil((n+1)/5) field groups: the first group holds the two column        *)
(* headers and the first min(n, 4) key/status pairs, every later group but *)
(* the last holds 5 pairs, and the last group holds the remaining 1 to 5   *)
(* pairs; a 23-issue list gives 5 groups.                                  *)
(***************************************************************************)
C22_GroupsWithHeader ==
    TaskListBuilt =>
        LET n == calc.out.count
            groups == calc.out.sections
            last == Len(groups)
        IN /\ last = (n + 5) \div 5
           /\ PairsIn(groups[1]) = (IF n < 4 THEN n ELSE 4)
           /\ Len(groups[1]) = 2 + 2 * PairsIn(groups[1])
           /\ \A g \in 2..(last - 1) : PairsIn(groups[g]) = 5
           /\ last > 1 => (PairsIn(groups[last]) \in 1..5
                              /\ PairsIn(groups[last]) = n - 4 - 5 * (last - 2))
           /\ n = 23 => last = 5

\* the 23-issue list has been laid out
C22_Witness ==
    /\ TaskListBuilt
    /\ calc.out.count = 23
    /\ Len(calc.out.sections) = 5
    /\ PairsIn(calc.out.sections[5]) = 4

(***************************************************************************)
(* C23  No field group of a task list holds more than 10 cells, no group   *)
(* is empty, every issue appears exactly once and in input order, and the  *)
(* key cell of an issue is directly followed by its status cell in the     *)
(* same group.                                                             *)
(***************************************************************************)
C23_GroupsBounded ==
    TaskListBuilt =>
        LET issues == calc.in.issues
            groups == calc.out.sections
            cells == IssueCellsOf(groups, Len(groups))
        IN /\ \A g \in DOMAIN groups : Len(groups[g]) \in 1..10
           /\ Len(cells) = 2 * Len(issues)
           /\ \A i \in DOMAIN issues :
                 /\ cells[2 * i - 1].col = "key" /\ cells[2 * i - 1].key = issues[i].key
                 /\ cells[2 * i].col = "status" /\ cells[2 * i].key = issues[i].key
           /\ \A g \in DOMAIN groups : \A p \in DOMAIN groups[g] :
                 groups[g][p].col = "key" =>
                    /\ p + 1 \in DOMAIN groups[g]
                    /\ groups[g][p + 1].col = "status"
                    /\ groups[g][p + 1].key = groups[g][p].key

\* a list that fills the first group exactly and spills one issue over
C23_Witness ==
    /\ TaskListBuilt
    /\ Len(calc.in.issues) = 5
    /\ Len(calc.out.sections) = 2
    /\ Len(calc.out.sections[1]) = 10
    /\ Len(calc.out.sections[2]) = 2

(***************************************************************************)
(* Reading a built issue card                                              *)
(***************************************************************************)
CardBuilt == calc.op = "buildIssueMessageBlocks"

\* an actions block other than the one with the link and comment buttons
IsTransitionBlock(block) ==
    /\ block.type = "actions"
    /\ \A c \in DOMAIN block.controls : block.controls[c].action_id[1] = "transition_"

\* a section that carries a select menu
IsReassignBlock(block) ==
    /\ block.type = "section"
    /\ block.texts = <<"Re-assign Issue:">>

Backed(list) == list.present /\ Len(list.list) > 0

(***************************************************************************)
(* C24  A card built for an issue without assignee shows "Unassigned" in   *)
(* its assignee field, and a card built with zero transitions has no       *)
(* transition block; in general the transition block and the reassign      *)
(* menu are in the card exactly when their backing list is given and not   *)
(* empty, and a block that is there has at least one control.              *)
(***************************************************************************)
C24_ControlsOnlyWhenBacked ==
    CardBuilt =>
        LET blocks == calc.out.blocks
        IN /\ calc.in.issue.assignee = NoName => blocks[2].texts[2] = "Unassigned"
           /\ (\E b \in DOMAIN blocks : IsTransitionBlock(blocks[b]))
                  <=> Backed(calc.in.transitions)
           /\ (\E b \in DOMAIN blocks : IsReassignBlock(blocks[b]))
                  <=> Backed(calc.in.assignableUsers)
           /\ \A b \in DOMAIN blocks :
                 (IsTransitionBlock(blocks[b]) \/ IsReassignBlock(blocks[b])) =>
                     Len(blocks[b].controls) >= 1

\* a card for an unassigned issue with an empty transition list and a
\* non-empty user list: the menu is there, the transition block is not
C24_Witness ==
    /\ CardBuilt
    /\ calc.in.issue.assignee = NoName
    /\ calc.in.transitions.present /\ calc.in.transitions.list = <<>>
    /\ Backed(calc.in.assignableUsers)
    /\ Len(calc.out.blocks) = 6
    /\ IsReassignBlock(calc.out.blocks[6])

(***************************************************************************)
(* C25  For every transition button and every reassign option rendered    *)
(* for issue K, the handler registered for the control parses from the     *)
(* control's value exactly K and the transition id or account id the       *)
(* control was built from (null for the Unassigned option), using nothing  *)
(* but the value.                                                          *)
(***************************************************************************)
Dispatched == calc.op = "dispatch"

\* the id the actuated control was built from
BuiltFrom ==
    IF calc.out.handler = "handleTransitionAction"
    THEN calc.in.transitions.list[calc.out.index].id
    ELSE IF calc.out.index = 1 THEN Null
    ELSE calc.in.assignableUsers.list[calc.out.index - 1].accountId

C25_PayloadRoundTrip ==
    Dispatched =>
        /\ calc.out.pc = "placeholder"
        /\ calc.out.issueKey = calc.in.issueKey
        /\ calc.out.target = BuiltFrom

\* the fourth transition button of a five-transition issue was pressed
C25_Witness ==
    /\ Dispatched
    /\ calc.out.handler = "handleTransitionAction"
    /\ calc.out.index = 4
    /\ Len(calc.in.transitions.list) = 5
    /\ calc.out.issueKey = KeyProj5
    /\ calc.out.target = "41"

(***************************************************************************)
(* C26  The identity store changes only in a step of a /jira-map run whose *)
(* email contains '@' and whose user search returned a user, and such a    *)
(* step only puts that run's row under the caller's chat id: the rows of   *)
(* other chat ids stay as they are and no chat id loses its mapping.       *)
(* Every step of any other run leaves the store unchanged.                 *)
(***************************************************************************)
\* run r is a link run that has passed the '@' check and found a user
LinkAllowed(r) ==
    /\ run[r].handler = "handleJiraMapCommand"
    /\ Includes(Trim(run[r].ev.text), "@")
    /\ OkIdx(r, {"searchUser"}) # {}

C26_OnlyLinkWrites ==
    [][store' # store =>
          \E r \in Runs :
              /\ LinkAllowed(r)
              /\ run[r].pc = "saveUserMapping"
              /\ Len(run'[r].log) = Len(run[r].log) + 1
              /\ \A e \in store' \ store : e.slack_id = run[r].ev.user
              /\ \A e \in store \ store' : e.slack_id = run[r].ev.user
              /\ \A e \in store : \E f \in store' : f.slack_id = e.slack_id]_vars

\* a stored link has survived a later comment submission by the same user
C26_Witness ==
    \E r \in Runs :
        /\ Done(r) /\ run[r].handler = "handleCommentSubmit"
        /\ OkIdx(r, {"addComment"}) # {}
        /\ run[r].userMap.present
        /\ \E e \in store : e.slack_id = run[r].ev.user /\ e.jira_account_id = "acctY"

(***************************************************************************)
(* C27  When every awaited call eventually returns or fails, every         *)
(* acknowledged run of every handler eventually ends (re-rendered,         *)
(* rejected, failed through its catch block, or finished), and an ended    *)
(* run makes no further external call: its log stays as it is until the    *)
(* next event starts a new run.                                            *)
(***************************************************************************)
Running(r) == run[r].pc \notin {"idle", "done"}

C27_RunsEnd ==
    /\ \A r \in SerialRuns : (Running(r) /\ AckOk(r)) ~> Done(r)
    /\ [][\A r \in SerialRuns :
            Done(r) => \/ run'[r] = run[r]
                       \/ run'[r].pc = "ack" /\ run'[r].log = <<>>]_vars

\* an acknowledged reassignment has ended through its catch block after a
\* failed refetch
C27_Witness ==
    \E r \in SerialRuns :
        /\ Done(r) /\ AckOk(r) /\ run[r].failed
        /\ run[r].handler = "handleAssignIssueAction"
        /\ FailIdx(r, {"getIssue"}) # {}

(***************************************************************************)
(* C28  In a transition or reassignment run the in-progress placeholder    *)
(* replaces the surface in place, is issued only after the acknowledged    *)
(* payload has gone through the handler's parsing, and comes strictly      *)
(* before the remote mutation: the mutation is invoked only in a run whose *)
(* placeholder respond has completed.                                      *)
(***************************************************************************)
C28_PlaceholderBeforeMutation ==
    \A r \in Runs :
        run[r].handler \in DispatchHandlers =>
            /\ \A i \in PlaceholderIdx(r) :
                   /\ ReplacesInPlace(LogOf(r)[i].arg)
                   /\ run[r].ev.shape = "complete"
                   /\ run[r].ev.value.parse = "object"
                   /\ \E a \in OkIdx(r, {"ack"}) : a < i
                   /\ \A j \in MutationIdx(r) : i < j
            /\ \A j \in MutationIdx(r) :
                   \E i \in PlaceholderIdx(r) : i < j /\ LogOf(r)[i].o = "ok"

\* a reassignment that showed its placeholder and then invoked the mutation
C28_Witness ==
    \E r \in Runs :
        /\ run[r].handler = "handleAssignIssueAction"
        /\ Done(r)
        /\ MutationIdx(r) # {}
        /\ PlaceholderIdx(r) # {}

(***************************************************************************)
(* C29  In a transition or reassignment run that rebuilds the issue card,  *)
(* the card of the final replace-in-place respond comes from a getIssue    *)
(* and a getTransitions read that were issued after the run's own mutation *)
(* returned and after its audit attempt (identity lookup, audit comment);  *)
(* the run reads no issue data before its mutation.                        *)
(***************************************************************************)
RefetchCalls == {"getIssue", "getTransitions", "getProjectUsers"}

AuditCalls == {"getUserMapping", "addComment"}

\* the responds of run r that carry a rebuilt issue card
CardIdx(r) ==
    {i \in ReplaceIdx(r) : LogOf(r)[i].arg.content.kind = "issueDoc"}

C29_RenderFromRefetch ==
    \A r \in Runs :
        run[r].handler \in DispatchHandlers =>
            /\ \A i \in CardIdx(r) :
                   \E m \in OkIdx(r, {MutationCall(run[r].handler)}) :
                   \E g \in OkIdx(r, {"getIssue"}) :
                   \E t \in OkIdx(r, {"getTransitions"}) :
                       /\ m < g /\ g < t /\ t < i
                       /\ \A a \in Idx(r, AuditCalls) : m < a /\ a < g
            /\ \A k \in Idx(r, RefetchCalls) :
                   \E m \in OkIdx(r, {MutationCall(run[r].handler)}) : m < k

\* a transition has replaced the placeholder by the refetched card after
\* writing its audit comment
C29_Witness ==
    \E r \in Runs :
        /\ run[r].handler = "handleTransitionAction"
        /\ Done(r)
        /\ RenderIdx(r) # {}
        /\ OkIdx(r, {"addComment"}) # {}

(***************************************************************************)
(* C30  In a transition or reassignment run an audit comment is written    *)
(* only after the run's mutation returned successfully and at most once;   *)
(* a run that was rejected before its mutation, or whose mutation failed,  *)
(* writes no comment.                                                      *)
(***************************************************************************)
AuditIdx(r) == Idx(r, {"addComment"})

C30_AuditAfterMutation ==
    \A r \in Runs :
        run[r].handler \in DispatchHandlers =>
            /\ Cardinality(AuditIdx(r)) <= 1
            /\ \A a \in AuditIdx(r) :
                   \E m \in OkIdx(r, {MutationCall(run[r].handler)}) : m < a
            /\ (Done(r) /\ ~MutationOk(r)) => AuditIdx(r) = {}

\* a reassignment whose mutation failed has ended without a comment
C30_Witness ==
    \E r \in Runs :
        /\ run[r].handler = "handleAssignIssueAction"
        /\ Done(r)
        /\ MutationFailed(r)
        /\ AuditIdx(r) = {}

(***************************************************************************)
(* C31  A run whose acknowledge call failed fails as a whole: the failed   *)
(* ack is the only external call of the run (no respond, no tracker call,  *)
(* no identity-store call follows), so no mutation succeeds in it.         *)
(***************************************************************************)
AckFailed(r) == FailIdx(r, {"ack"}) # {}

C31_FailedAckStops ==
    \A r \in Runs :
        AckFailed(r) =>
            /\ Len(LogOf(r)) = 1
            /\ Done(r)
            /\ Idx(r, {"respond"} \cup TrackerCalls \cup StoreCalls) = {}
            /\ ~MutationOk(r)

\* a reassignment selection whose ack was rejected
C31_Witness ==
    \E r \in Runs :
        /\ run[r].handler = "handleAssignIssueAction"
        /\ run[r].ev.shape = "complete"
        /\ run[r].ev.value.parse = "object"
        /\ AckFailed(r)
        /\ run[r].escaped

(***************************************************************************)
(* C32  The mention encoder segments the combined string faithfully: the   *)
(* nodes written back in order (text verbatim, mention as its token) give  *)
(* the combined string whenever it is non-empty; every token found by the  *)
(* left-to-right scan is one mention node whose id is the token's id (not  *)
(* empty, ending at the token's first closing bracket), so no text node    *)
(* still holds a token; no text node is empty and no two text nodes are    *)
(* adjacent.                                                               *)
(***************************************************************************)
\* a token starts somewhere in str
HoldsToken(str) == \E i \in 0..(Len(str) - 1) : MatchAt(str, i)

C32_FaithfulSegments ==
    Encoded =>
        LET nodes == calc.out.nodes
            full == FullText(calc.in.text, calc.in.id)
        IN /\ full # <<>> => Inline(nodes, Len(nodes)) = full
           /\ \A n \in DOMAIN nodes :
                  /\ nodes[n].value # <<>>
                  /\ nodes[n].type = "text" => ~HoldsToken(nodes[n].value)
                  /\ nodes[n].type = "mention" =>
                         \A p \in DOMAIN nodes[n].value : nodes[n].value[p] # Closer
                  /\ (n > 1 /\ nodes[n].type = "text") => nodes[n - 1].type = "mention"

\* a text with a token between plain characters and an id to append: four
\* nodes, text and mention alternating, with different ids
C32_Witness ==
    /\ Encoded
    /\ calc.in.id # NoId
    /\ Len(calc.out.nodes) = 4
    /\ calc.out.nodes[1].type = "text"
    /\ calc.out.nodes[2].type = "mention"
    /\ calc.out.nodes[3].type = "text"
    /\ calc.out.nodes[4].type = "mention"
    /\ calc.out.nodes[2].value # calc.out.nodes[4].value

(***************************************************************************)
(* C33  Every status except the last in sorted order receives exactly      *)
(* round(count / fetched * 20) bar units, the two-step rounding through    *)
(* the integer percentage giving the same number as the single rounding,   *)
(* and the last status receives max(0, 20 - sum of the prior allocations). *)
(***************************************************************************)
\* round(count / fetched * barLength) in exact arithmetic, a half goes up
RoundedShare(count, fetchedCount) ==
    (2 * barLength * count + fetchedCount) \div (2 * fetchedCount)

RECURSIVE PriorShares(_, _, _)
\* the sum of the rounded shares of the first k statuses
PriorShares(sortedStatuses, fetchedCount, k) ==
    IF k = 0 THEN 0
    ELSE PriorShares(sortedStatuses, fetchedCount, k - 1)
             + RoundedShare(sortedStatuses[k][2], fetchedCount)

\* the units the claim gives to the k-th status
ClaimedUnits(sortedStatuses, fetchedCount, k) ==
    IF k < Len(sortedStatuses) THEN RoundedShare(sortedStatuses[k][2], fetchedCount)
    ELSE LET left == barLength - PriorShares(sortedStatuses, fetchedCount, k - 1)
         IN IF left < 0 THEN 0 ELSE left

RECURSIVE ClaimedBar(_, _, _)
ClaimedBar(sortedStatuses, fetchedCount, k) ==
    IF k = 0 THEN <<>>
    ELSE ClaimedBar(sortedStatuses, fetchedCount, k - 1)
             \o Repeat(blockEmojis[((k - 1) % Len(blockEmojis)) + 1],
                       ClaimedUnits(sortedStatuses, fetchedCount, k))

C33_Claim ==
    (ProjectStatsBuilt /\ calc.out.kind = "populated" /\ calc.in.issues # <<>>) =>
        calc.out.progressBar =
            ClaimedBar(calc.out.statusFields, calc.out.fetchedCount,
                       Len(calc.out.statusFields))

(***************************************************************************)
(* C34  The assignee groups of buildAssigneeStatsBlocks are ordered by     *)
(* total descending, groups with equal totals keep the order in which      *)
(* their assignee was first met in the issue list, and there is exactly    *)
(* one section per distinct assignee name.                                 *)
(***************************************************************************)
\* the position of the first issue of the given assignee
FirstAssigned(issues, name) ==
    CHOOSE i \in DOMAIN issues :
        /\ AssigneeName(issues[i]) = name
        /\ \A j \in 1..(i - 1) : AssigneeName(issues[j]) # name

C35_SummaryBudget ==
    TaskListBuilt =>
        \A g \in DOMAIN calc.out.sections :
            \A p \in DOMAIN calc.out.sections[g] :
                LET cell == calc.out.sections[g][p]
                IN cell.col = "key" =>
                      LET summary == calc.in.issues[cell.key].summary
                      IN /\ Len(summary) > 60 =>
                               /\ Len(cell.text) = 60
                               /\ SubSeq(cell.text, 1, 59) = SubSeq(summary, 1, 59)
                               /\ cell.text[60] = Ellipsis
                         /\ (summary # NoSummary /\ Len(summary) <= 60) =>
                               cell.text = summary

\* a summary of 61 characters has been cut
C35_Witness ==
    /\ TaskListBuilt
    /\ Len(calc.in.issues) = 1
    /\ Len(calc.in.issues[1].summary) = 61
    /\ Len(calc.out.sections[1][3].text) = 60

(***************************************************************************)
(* C36  The transition control group of a rendered issue holds min(n, 4)   *)
(* buttons for n upstream transitions: the first four in upstream order,   *)
(* each named after and carrying the id of its own transition; the         *)
(* transitions after the fourth are dropped.                               *)
(***************************************************************************)
Min(a, b) == IF a < b THEN a ELSE b

C36_FirstFourTransitions ==
    (CardBuilt /\ Backed(calc.in.transitions)) =>
        LET blocks == calc.out.blocks
            upstream == calc.in.transitions.list
            groups == {b \in DOMAIN blocks : IsTransitionBlock(blocks[b])}
        IN /\ Cardinality(groups) = 1
           /\ \A b \in groups :
                 /\ Len(blocks[b].controls) = Min(Len(upstream), 4)
                 /\ \A k \in DOMAIN blocks[b].controls :
                       LET button == blocks[b].controls[k]
                       IN /\ button.text = upstream[k].name
                          /\ button.action_id = <<"transition_", upstream[k].id>>
                          /\ button.value.name = "transitionId"
                          /\ upstream[k].id # Undefined =>
                                 button.value.value = <<upstream[k].id>>

\* five transitions upstream, four buttons rendered
C36_Witness ==
    /\ CardBuilt
    /\ Len(calc.in.transitions.list) = 5
    /\ \E b \in DOMAIN calc.out.blocks :
          /\ IsTransitionBlock(calc.out.blocks[b])
          /\ Len(calc.out.blocks[b].controls) = 4
          /\ calc.out.blocks[b].controls[4].text = "Reopen"

(***************************************************************************)
(* C37  In a /jira run a tracker failure while reading the issue or its    *)
(* transitions is answered by exactly one error message, visible to the    *)
(* actor only: the not-found message for status 404, the unauthorized      *)
(* message for status 401, the generic message otherwise; the run posts no *)
(* issue card.                                                             *)
(***************************************************************************)
ReadCalls == {"getIssue", "getTransitions"}

C37_ReadFailureMapped ==
    \A r \in Runs :
        (run[r].handler = "handleJiraCommand" /\ Done(r)) =>
            \A f \in FailIdx(r, ReadCalls) :
                /\ Cardinality(ErrorIdx(r)) = 1
                /\ \A i \in RespondIdx(r) :
                       LET m == LogOf(r)[i].arg
                       IN /\ m.content.kind # "issueDoc"
                          /\ m.response_type # "in_channel"
                          /\ i > f =>
                                 /\ ActorOnly(m)
                                 /\ LogOf(r)[f].o = "404" => m.content.kind = "notfound"
                                 /\ LogOf(r)[f].o = "401" => m.content.kind = "unauthorized"
                                 /\ LogOf(r)[f].o \notin {"404", "401"} =>
                                        m.content.kind = "error"

\* the transitions of a found issue could not be read for lack of credentials
C37_Witness ==
    \E r \in Runs :
        /\ run[r].handler = "handleJiraCommand" /\ Done(r)
        /\ OkIdx(r, {"getIssue"}) # {}
        /\ \E f \in FailIdx(r, {"getTransitions"}) : LogOf(r)[f].o = "401"
        /\ \E i \in ErrorIdx(r) :
              LogOf(r)[i].arg.content.kind = "unauthorized" /\ LogOf(r)[i].o = "ok"

\* a run of a transition or a reassignment begins in this step
DispatchBegins ==
    \E r \in Runs : /\ run[r].pc \in {"idle", "done"}
                    /\ run'[r].pc \notin {"idle", "done"}
                    /\ run'[r].handler \in DispatchHandlers

\* C38: while the in-progress placeholder is the content of the surface, the
\* surface holds no transition button and no assignee option, so no run of a
\* transition or a reassignment begins from it
C38_PlaceholderInert ==
    /\ [](surface.kind = "placeholder" =>
              ControlsOn(surface) \cap {"transition_", "assign_issue"} = {})
    /\ [][DispatchBegins => surface.kind # "placeholder"]_vars

\* the mutation failed after the placeholder was shown: the run is over and
\* the placeholder is still what the channel sees
C38_Witness ==
    \E r \in Runs :
        /\ run[r].handler \in DispatchHandlers /\ Done(r)
        /\ MutationFailed(r)
        /\ surface.kind = "placeholder" /\ surface.by = r

RenderingHandlers == DispatchHandlers \cup {"handleJiraCommand"}

\* the call of the run that follows call i is the issue document sent
\* without the reassign control
BareCardNext(r, i) ==
    /\ i + 1 \in RespondIdx(r)
    /\ LogOf(r)[i + 1].arg.content.kind = "issueDoc"
    /\ ~LogOf(r)[i + 1].arg.content.reassign

\* C39: when the fetch of the assignable users fails in /jira or in the
\* refetch of a transition or a reassignment, the next thing the run does is
\* send the issue document without the reassign control; a run that ends
\* has sent it, and if that send succeeded the run sent no error message
C39_UserFetchSwallowed ==
    \A r \in Runs :
        run[r].handler \in RenderingHandlers =>
            \A f \in FailIdx(r, {"getProjectUsers"}) :
                /\ f < Len(LogOf(r)) => BareCardNext(r, f)
                /\ Done(r) => /\ BareCardNext(r, f)
                              /\ LogOf(r)[f + 1].o = "ok" =>
                                    \A i \in RespondIdx(r) :
                                        LogOf(r)[i].arg.content.kind \notin ErrorKinds

\* the card of /jira reached the channel without the reassign menu after a
\* failed fetch of the users
C39_Witness ==
    \E r \in Runs :
        /\ run[r].handler = "handleJiraCommand" /\ Done(r)
        /\ \E f \in FailIdx(r, {"getProjectUsers"}) :
              BareCardNext(r, f) /\ LogOf(r)[f + 1].o = "ok"
        /\ surface.kind = "issueDoc" /\ surface.by = r /\ ~surface.reassign

\* the same in the refetch of a reassignment
C39_WitnessRefetch ==
    \E r \in Runs :
        /\ run[r].handler = "handleAssignIssueAction" /\ Done(r)
        /\ \E f \in FailIdx(r, {"getProjectUsers"}) :
              BareCardNext(r, f) /\ LogOf(r)[f + 1].o = "ok"

\* C40: in a run of the comment submission the success message to the actor
\* comes after a comment write that succeeded; after a failed identity lookup
\* or a failed comment write the run sends no success message and makes no
\* further call, so the comment is written at most once
C40_SuccessAfterWrite ==
    \A r \in Runs :
        run[r].handler = "handleCommentSubmit" =>
            /\ \A p \in Idx(r, {"chat.postMessage"}) :
                  \E w \in OkIdx(r, {"addComment"}) : w < p
            /\ \A f \in FailIdx(r, {"getUserMapping", "addComment"}) :
                  /\ f = Len(LogOf(r))
                  /\ Idx(r, {"chat.postMessage"}) = {}
                  /\ run[r].pc \in {"done", "idle"}
            /\ Cardinality(Idx(r, {"addComment"})) <= 1

\* the comment was written and the actor was told
C40_Witness ==
    \E r \in Runs :
        /\ run[r].handler = "handleCommentSubmit" /\ Done(r)
        /\ \E w \in OkIdx(r, {"addComment"}) :
              \E p \in OkIdx(r, {"chat.postMessage"}) : w < p

\* the comment write failed and the run ended in silence
C40_WitnessFailed ==
    \E r \in Runs :
        /\ run[r].handler = "handleCommentSubmit" /\ Done(r)
        /\ FailIdx(r, {"addComment"}) # {}

====
